---- MODULE Spec2Model ----
(***************************************************************************)
(* Study-plan wizard (StudyPlanPage.tsx), quiz scoring, nudge selection    *)
(* and the dashboard aggregator (Nav.tsx, StudentDashboard).               *)
(*                                                                         *)
(* Conventions                                                             *)
(*   - a nullable number is a sequence: <<>> is null, <<n>> is n           *)
(*   - a missing/undefined/null string (chapter tag, topic tag, selected   *)
(*     chapter) is "", which JavaScript treats as falsy exactly like       *)
(*     undefined and null in every test the code makes                     *)
(*   - question i (0-based, as in the code) of a quiz q is q[i + 1]        *)
(*   - an answer mapping is a function whose DOMAIN is the set of keys     *)
(***************************************************************************)
EXTENDS Integers, Sequences, FiniteSets, TLC

VARIABLES
  \* ---- StudyPlanPage component state (useState) ----
  step,
  user,               \* TRUE when a user object is set, FALSE for null
  authModalOpen,
  authLoading,
  authError,
  board,
  selectedSubject,
  subjects,
  chapters,
  extraChapters,
  syllabusConfirmed,
  previousMarks,
  knowledgeLevel,
  quiz,               \* initialQuiz, topicQuiz, chapterQuiz, threeChapterQuiz by type
  answers,            \* quizAnswers, topicQuizAnswers, ... by type
  quizScore,
  weakChapters,
  studyPlan,
  progress,
  stats,              \* completedTasks and totalTasks of Stats
  completedTopics,
  completedChapters,
  selectedChapter,
  selectedTopic,
  currentSubtopic,
  subtopics,
  loading,
  error,
  missedDate,         \* "" until a date is picked in the reschedule box
  chatHistory,        \* the roles of the messages shown by the tutor chat
  \* ---- QuizInterface component state ----
  currentQuestion,
  \* ---- AIChatInterface component state ----
  message,            \* the text typed in the chat box, a sequence of characters
  \* ---- requests in flight, each with the closure of the handler awaiting it ----
  calls,
  \* ---- the REST collaborator ----
  server,
  \* ---- other components and probes ----
  dashProgress,   \* StudentDashboard: progress
  dashStats,      \* StudentDashboard: const stats = getProgressStats()
  dashLoading,    \* StudentDashboard: loading
  nudgeArgs,      \* arguments of the last generateNudge call
  nudge,          \* StudyPlanPage: nudge
  \* ---- MockTestsPage component state (useState) ----
  selectedTest,       \* <<>> for null, <<id>> for the Test object of that id
  testQuestions,      \* questions
  testCurrentQuestion,\* currentQuestion
  testAnswers,        \* answers
  showResults,
  testResults,
  tests,
  gamifiedMode,
  testProgress,       \* progress
  mockCalls,          \* requests of MockTestsPage in flight
  mockServer          \* the score the collaborator stores per test id

dashVars == <<dashProgress, dashStats, dashLoading>>
nudgeVars == <<nudgeArgs, nudge>>
authVars == <<user, authModalOpen, authLoading, authError>>
selVars == <<board, selectedSubject, subjects, chapters, extraChapters>>
levelVars == <<previousMarks, knowledgeLevel>>
quizVars == <<quiz, answers, quizScore, weakChapters, currentQuestion>>
planVars == <<studyPlan, progress, stats, completedTopics, completedChapters>>
topicVars == <<selectedChapter, selectedTopic, currentSubtopic, subtopics>>
toolVars == <<missedDate, chatHistory, message>>
mockVars == <<selectedTest, testQuestions, testCurrentQuestion, testAnswers, showResults,
              testResults, tests, gamifiedMode, testProgress, mockCalls, mockServer>>
wizardVars == <<step, authVars, selVars, syllabusConfirmed, levelVars, quizVars, planVars, topicVars, toolVars,
                loading, error, calls, server>>
vars == <<wizardVars, dashVars, nudgeVars, mockVars>>

(***************************************************************************)
(* Bounds                                                                  *)
(***************************************************************************)
MaxLog == 3        \* longest progress log given to the dashboard
MaxPlanTasks == 5  \* largest task total given to generateNudge
MaxWeak == 3       \* longest weak-chapter list given to generateNudge
MaxInflight == 1   \* requests in flight when a handler may still start another
MaxQuizLen == 2    \* longest question list given to the scoring loops
MaxStoredTasks == 2  \* most tasks of a stored plan given to the step 6 scan
MaxChat == 2       \* messages in the chat history when another may still be sent

Null == <<>>
ChapterNames == {"Motion", "Heat", "Light"}

\* useState('') of missedDate, useState([]) of chatHistory, useState('') of message
ToolInit == missedDate = "" /\ chatHistory = <<>> /\ message = <<>>

(***************************************************************************)
(* Generic helpers                                                         *)
(***************************************************************************)
\* Array.prototype.slice(0, n)
SliceFirst(s, n) == SubSeq(s, 1, IF Len(s) < n THEN Len(s) ELSE n)

\* all sequences over S of length 0..n
SeqsUpTo(S, n) == UNION {[1..k -> S] : k \in 0..n}

\* the elements of a sequence
Range(s) == {s[i] : i \in DOMAIN s}

(***************************************************************************)
(* Dashboard aggregator (Nav.tsx, StudentDashboard)                        *)
(***************************************************************************)
\* p.score || 0
ScoreOrZero(p) == IF p.score = Null THEN 0 ELSE p.score[1]

RECURSIVE SumScores(_)
\* progress.reduce((sum, p) => sum + (p.score || 0), 0)
SumScores(log) ==
  IF log = <<>> THEN 0
  ELSE SumScores(SubSeq(log, 1, Len(log) - 1)) + ScoreOrZero(log[Len(log)])

\* progress.filter(p => p.completed).length
CompletedCount(log) == Cardinality({i \in DOMAIN log : log[i].completed})

\* Math.round(n / d) for n >= 0, d > 0
RoundDiv(n, d) == (2 * n + d) \div (2 * d)

getProgressStats(log) ==
  LET completed == CompletedCount(log)
      total == Len(log)
      divisor == IF completed = 0 THEN 1 ELSE completed
  IN [completed |-> completed, total |-> total,
      averageScore |-> RoundDiv(SumScores(log), divisor)]

ScoreValues == {Null, <<0>>, <<50>>, <<75>>}
ProgressRecords == [completed : BOOLEAN, score : ScoreValues]
ProgressLogs == SeqsUpTo(ProgressRecords, MaxLog)

\* construction: useState([]), useState(true) and the first render; the
\* mount effect has issued GET /progress
DashInit ==
  /\ dashProgress = <<>>
  /\ dashLoading = TRUE
  /\ dashStats = getProgressStats(<<>>)

\* the mount effect's fetchProgress resolves: setProgress(response.data),
\* setLoading(false), then the render recomputes stats
fetchProgress ==
  /\ dashLoading
  /\ \E log \in ProgressLogs :
       /\ dashProgress' = log
       /\ dashStats' = getProgressStats(log)
  /\ dashLoading' = FALSE
  /\ UNCHANGED <<nudgeVars, wizardVars, mockVars>>

\* the mount effect's fetchProgress fails: setError, setLoading(false)
fetchProgressFails ==
  /\ dashLoading
  /\ dashLoading' = FALSE
  /\ UNCHANGED <<dashProgress, dashStats, nudgeVars, wizardVars, mockVars>>

(***************************************************************************)
(* Nudge generator (StudyPlanPage.tsx, generateNudge)                      *)
(***************************************************************************)
\* weak.slice(0, 2).join(', ') || 'your studies' : the joined text is empty
\* when nothing is joined or when the only joined name is the empty string
JoinIsEmpty(names) == names = <<>> \/ names = <<"">>

\* generateNudge with the completion-ratio rules tried before the weak-chapter rule
generateNudge_ratioFirst(completed, total, missed, weak) ==
  IF missed > 0
    THEN [rule |-> "missed", missed |-> missed,
          focus |-> IF JoinIsEmpty(SliceFirst(weak, 2))
                      THEN <<"your studies">> ELSE SliceFirst(weak, 2)]
  ELSE IF total > 0 /\ 5 * completed > 4 * total
    THEN [rule |-> "mastery", missed |-> 0, focus |-> <<>>]
  ELSE IF total > 0 /\ 2 * completed > total
    THEN [rule |-> "halfway", missed |-> 0, focus |-> <<>>]
  ELSE IF Len(weak) # 0
    THEN [rule |-> "weak", missed |-> 0, focus |-> SliceFirst(weak, 2)]
  ELSE [rule |-> "encourage", missed |-> 0, focus |-> <<>>]

generateNudge(completed, total, missed, weak) ==
  IF missed > 0
    THEN [rule |-> "missed", missed |-> missed,
          focus |-> IF JoinIsEmpty(SliceFirst(weak, 2))
                      THEN <<"your studies">> ELSE SliceFirst(weak, 2)]
  ELSE IF Len(weak) # 0
    THEN [rule |-> "weak", missed |-> 0, focus |-> SliceFirst(weak, 2)]
  \* rate > 0.8 with rate = total > 0 ? completed / total : 0
  ELSE IF total > 0 /\ 5 * completed > 4 * total
    THEN [rule |-> "mastery", missed |-> 0, focus |-> <<>>]
  ELSE IF total > 0 /\ 2 * completed > total
    THEN [rule |-> "halfway", missed |-> 0, focus |-> <<>>]
  ELSE [rule |-> "encourage", missed |-> 0, focus |-> <<>>]

NoNudge == [rule |-> "", missed |-> 0, focus |-> <<>>]
NoArgs == [completed |-> 0, total |-> 0, missed |-> 0, weak |-> <<>>]

NudgeInit ==
  /\ nudgeArgs = NoArgs
  /\ nudge = NoNudge

\* the argument tuples given to generateNudge: counters of a plan scan
\* (completed and missed tasks are disjoint) and a weak-chapter list
NudgeInputs ==
  {a \in [completed : 0..MaxPlanTasks, total : 0..MaxPlanTasks,
          missed : 0..MaxPlanTasks, weak : SeqsUpTo(ChapterNames, MaxWeak)] :
     a.completed + a.missed <= a.total}

\* the call generateNudge(completed, total, missed, weak) whose result is
\* stored with setNudge
callGenerateNudge ==
  /\ nudge = NoNudge
  /\ nudge' = generateNudge(nudgeArgs.completed, nudgeArgs.total,
                            nudgeArgs.missed, nudgeArgs.weak)
  /\ UNCHANGED <<nudgeArgs, dashVars, mockVars, wizardVars>>

(***************************************************************************)
(* Data of the wizard (StudyPlanPage.tsx)                                  *)
(***************************************************************************)
QuizTypes == {"initial", "topic", "chapter", "three_chapter"}
Options == {"A", "B"}
Undefined == "undefined"   \* answers[i] for a key the mapping lacks

\* QuizQuestion: answer, options, chapter?, topic?
Question(answer, chapter, topic) ==
  [answer |-> answer, options |-> Options, chapter |-> chapter, topic |-> topic]

\* StudyTask, with the week whose list holds it
\* (late: new Date(task.date) < today)
Task(id, week, chapter, topic, subtopic, late) ==
  [id |-> id, week |-> week, chapter |-> chapter, topic |-> topic,
   subtopic |-> subtopic, late |-> late, completed |-> FALSE]

\* the step that renders the QuizInterface of a quiz type
StepOfType(type) ==
  CASE type = "initial" -> 4
    [] type = "topic" -> 8
    [] type = "chapter" -> 9
    [] type = "three_chapter" -> 10

\* answers[i]
Ans(a, i) == IF i \in DOMAIN a THEN a[i] ELSE Undefined

\* { ...answers, [k]: option }
WithAnswer(a, k, option) ==
  [i \in DOMAIN a \cup {k} |-> IF i = k THEN option ELSE a[i]]

RECURSIVE Dedupe(_)
\* [...new Set(list)]: first occurrences, in order
Dedupe(list) ==
  IF list = <<>> THEN <<>>
  ELSE LET front == Dedupe(SubSeq(list, 1, Len(list) - 1))
           last == list[Len(list)]
       IN IF last \in Range(front) THEN front ELSE Append(front, last)

(***************************************************************************)
(* Scoring loops                                                           *)
(***************************************************************************)
\* a plausible slip: a question without an answer is taken as answered
Correct_missingCounts(given, i, q) == i \notin DOMAIN given \/ given[i] = q.answer

\* answers[i] === q.answer
Correct(given, i, q) == Ans(given, i) = q.answer

RECURSIVE InitialLoop(_, _, _)
\* handleInitialQuizSubmit: initialQuiz.forEach((q, i) => ...) over the
\* first n questions, from score = 0 and weak = []
InitialLoop(questions, given, n) ==
  IF n = 0 THEN [score |-> 0, weak |-> <<>>]
  ELSE LET acc == InitialLoop(questions, given, n - 1)
           q == questions[n]
       IN IF Correct(given, n - 1, q)
            THEN [acc EXCEPT !.score = @ + 1]
          ELSE IF q.chapter # ""
            THEN [acc EXCEPT !.weak = Append(@, q.chapter)]
          ELSE acc

RECURSIVE QuizLoop(_, _, _, _, _, _)
\* handleQuizSubmit: quiz.forEach((q, i) => ...) over the first n questions,
\* from score = 0 and weak = [...weakChapters]
QuizLoop(type, questions, given, weak0, selected, n) ==
  IF n = 0 THEN [score |-> 0, weak |-> weak0]
  ELSE LET acc == QuizLoop(type, questions, given, weak0, selected, n - 1)
           q == questions[n]
       IN IF Correct(given, n - 1, q)
            THEN [acc EXCEPT !.score = @ + 1]
          ELSE IF type \in {"initial", "three_chapter"} /\ q.chapter # ""
            THEN [acc EXCEPT !.weak = Append(@, q.chapter)]
          ELSE IF type = "chapter" /\ q.topic # ""
            \* weak.push(q.chapter || selectedChapter || '')
            THEN [acc EXCEPT !.weak = Append(@, IF q.chapter # "" THEN q.chapter
                                                ELSE selected)]
          ELSE acc

\* score / quiz.length < 0.6 (0 / 0 is NaN, and NaN < 0.6 is false)
BelowThreshold(score, length) == length > 0 /\ 5 * score < 3 * length

\* a plausible slip: the upper boundary compared with < instead of <=
LevelOfMarks_exclusive(marks) ==
  IF marks < 60 THEN "beginner"
  ELSE IF marks < 75 THEN "intermediate"
  ELSE "advanced"

\* handleMarksSubmit: the level of previousMarks
LevelOfMarks(marks) ==
  IF marks < 60 THEN "beginner"
  ELSE IF marks <= 75 THEN "intermediate"
  ELSE "advanced"

(***************************************************************************)
(* Plans                                                                   *)
(***************************************************************************)
\* studyPlan[week]
WeekList(plan, week) == SelectSeq(plan, LAMBDA t : t.week = week)

\* studyPlan[week]?.find(t => t.id === taskId): the index in the plan of the
\* first task of the week with that id, 0 when there is none
FindTask(plan, week, taskId) ==
  LET hits == {i \in DOMAIN plan : plan[i].week = week /\ plan[i].id = taskId}
  IN IF hits = {} THEN 0 ELSE CHOOSE i \in hits : \A j \in hits : i <= j

\* Object.values(studyPlan).flat().filter(t => t.topic === task.topic &&
\*   t.chapter === task.chapter).every(t => t.completed)
TopicTasksComplete(plan, task) ==
  \A i \in DOMAIN plan :
    (plan[i].topic = task.topic /\ plan[i].chapter = task.chapter) => plan[i].completed

\* Object.values(studyPlan).flat().filter(t => t.chapter === task.chapter)
\*   .every(t => t.completed)
ChapterTasksComplete(plan, task) ==
  \A i \in DOMAIN plan : plan[i].chapter = task.chapter => plan[i].completed

(***************************************************************************)
(* The REST collaborator: the data it serves                               *)
(***************************************************************************)
\* three tasks of one chapter, spread over two weeks
PlanOneChapter ==
  <<Task(1, "1", "Motion", "Speed", "Average speed", TRUE),
    Task(2, "1", "Motion", "Speed", "Velocity", TRUE),
    Task(3, "2", "Motion", "Force", "Newton", FALSE)>>

\* three chapters of one task each
PlanThreeChapters ==
  <<Task(1, "1", "Motion", "Speed", "Average speed", TRUE),
    Task(2, "1", "Heat", "Flow", "Conduction", TRUE),
    Task(3, "2", "Light", "Rays", "Reflection", FALSE)>>

PlanOneTask == <<Task(1, "1", "Motion", "Speed", "Average speed", TRUE)>>

QuizOne == <<Question("A", "Motion", "Speed")>>

\* two of three questions share a chapter
QuizInitialThree ==
  <<Question("A", "Motion", ""), Question("A", "Heat", ""), Question("B", "Heat", "")>>

\* tags that differ from the chapter under study, and a question without tags
QuizTopicTwo == <<Question("A", "Heat", "Speed"), Question("B", "", "")>>

\* what the collaborator holds for the student: a study plan generator and
\* quiz generators (opaque to the wizard, fixed for a session)
Catalogue ==
  <<[plan |-> PlanOneChapter, initial |-> QuizOne, other |-> QuizOne],
    [plan |-> PlanThreeChapters, initial |-> QuizOne, other |-> QuizOne],
    [plan |-> PlanOneTask, initial |-> QuizInitialThree, other |-> QuizTopicTwo]>>

SubjectList == <<"Physics">>
Syllabus == <<"Motion", "Heat", "Light">>
SubtopicList == <<"Average speed", "Velocity">>

\* PUT /task-progress: the plan with the task of that week and id complete
MarkComplete(plan, week, taskId) ==
  [i \in DOMAIN plan |->
     IF plan[i].week = week /\ plan[i].id = taskId
       THEN [plan[i] EXCEPT !.completed = TRUE] ELSE plan[i]]

(***************************************************************************)
(* Requests in flight                                                      *)
(*   kind    : which await the handler is suspended at                     *)
(*   mounted : the fetchData closure's `mounted` flag (TRUE for the others)*)
(*   env     : the values of the handler's closure used after the await    *)
(***************************************************************************)
NoEnv == [none |-> TRUE]
Call(kind, mounted, env) == [kind |-> kind, mounted |-> mounted, env |-> env]

Remove(cs, i) == SubSeq(cs, 1, i - 1) \o SubSeq(cs, i + 1, Len(cs))

FetchKinds == {"subjects", "syllabus", "initial", "plan", "subtopics",
               "topic", "chapter", "three_chapter"}

\* the effect's cleanup, () => { mounted = false }, for every earlier run
Unmount(cs) ==
  [i \in DOMAIN cs |->
     IF cs[i].kind \in FetchKinds THEN [cs[i] EXCEPT !.mounted = FALSE] ELSE cs[i]]

\* the dependency list of the data-fetching effect (classNum is always a
\* class number and completedChapters is compared by reference, see Effect)
Deps == <<step, board, selectedSubject, knowledgeLevel, selectedChapter, selectedTopic>>

\* the branch fetchData takes, "none" when no condition matches
FetchBranch ==
  CASE step = 1 /\ board # "" -> "subjects"
    [] step = 2 /\ selectedSubject # "" -> "syllabus"
    [] step = 4 -> "initial"
    [] step = 6 -> "plan"
    [] step = 7 /\ selectedChapter # "" /\ selectedTopic # "" -> "subtopics"
    [] step = 8 /\ selectedChapter # "" /\ selectedTopic # "" -> "topic"
    [] step = 9 /\ selectedChapter # "" -> "chapter"
    [] step = 10 /\ Len(completedChapters) >= 3 -> "three_chapter"
    [] OTHER -> "none"

\* what the fetchData closure of a render reads after its await
FetchEnv == [subject |-> selectedSubject, weak |-> weakChapters, stats |-> stats]

\* variant: a run that matches no branch leaves the flag set
Effect_keepsLoading(baseCalls, baseLoading, newCompletedChapters) ==
  IF newCompletedChapters \/ Deps' # Deps
    THEN /\ calls' = IF FetchBranch' = "none" THEN Unmount(baseCalls)
                     ELSE Append(Unmount(baseCalls), Call(FetchBranch', TRUE, FetchEnv'))
         /\ loading' = TRUE
    ELSE /\ calls' = baseCalls
         /\ loading' = baseLoading

\* The render after a handler's state updates: when a dependency changed (or
\* setCompletedChapters stored a new array) the previous run is cleaned up
\* and fetchData runs again: setLoading(true), then either a request or,
\* when no branch matches, the finally block's setLoading(false) at once.
\* A mounting QuizInterface starts at question 0.
Effect(baseCalls, baseLoading, newCompletedChapters) ==
  IF newCompletedChapters \/ Deps' # Deps
    THEN /\ calls' = IF FetchBranch' = "none" THEN Unmount(baseCalls)
                     ELSE Append(Unmount(baseCalls), Call(FetchBranch', TRUE, FetchEnv'))
         /\ loading' = (FetchBranch' # "none")
    ELSE /\ calls' = baseCalls
         /\ loading' = baseLoading

\* QuizInterface is mounted by steps 4, 8, 9, 10 and unmounted by a step change
Remount(cq) == IF step' # step THEN 0 ELSE cq

\* the page reacts to the pointer: no loading overlay (fixed inset-0 z-50)
\* and no open auth dialog above it
Interactive == ~loading /\ ~authModalOpen

(***************************************************************************)
(* Construction                                                            *)
(***************************************************************************)
NoStats == [completedTasks |-> 0, totalTasks |-> 0]

\* what GET /progress and GET /dashboard/stats serve a student who has not
\* completed anything yet
ServerProgress == <<>>
ServerStats == NoStats

\* useState initial values, then the mount effects: the token check, a
\* fetchData run that matches no branch and, with a stored user,
\* fetchProgressAndStats
WizardInit ==
  /\ user \in BOOLEAN
  /\ authModalOpen = ~user
  /\ authLoading = FALSE
  /\ authError = ""
  /\ step = IF user THEN 0 ELSE -1
  /\ board = ""
  /\ selectedSubject = ""
  /\ subjects = <<>>
  /\ chapters = <<>>
  /\ extraChapters = <<>>
  /\ syllabusConfirmed = FALSE
  /\ previousMarks = Null
  /\ knowledgeLevel = "beginner"
  /\ quiz = [t \in QuizTypes |-> <<>>]
  /\ answers = [t \in QuizTypes |-> <<>>]
  /\ quizScore = Null
  /\ weakChapters = <<>>
  /\ currentQuestion = 0
  /\ studyPlan = <<>>
  /\ progress = <<>>
  /\ stats = NoStats
  /\ completedTopics = <<>>
  /\ completedChapters = <<>>
  /\ selectedChapter = ""
  /\ selectedTopic = ""
  /\ currentSubtopic = ""
  /\ subtopics = <<>>
  /\ ToolInit
  /\ loading = FALSE
  /\ error = ""
  /\ calls = IF user THEN <<Call("progress", TRUE, NoEnv)>> ELSE <<>>
  /\ server \in {[catalogue |-> c, plan |-> <<>>] : c \in DOMAIN Catalogue}

(***************************************************************************)
(* Authentication                                                          *)
(***************************************************************************)
handleAuthSubmit ==
  /\ authModalOpen /\ ~authLoading
  /\ Len(calls) < MaxInflight
  /\ authLoading' = TRUE
  /\ calls' = Append(calls, Call("auth", TRUE, NoEnv))
  /\ UNCHANGED <<syllabusConfirmed, step, user, authModalOpen, authError, selVars, levelVars, quizVars,
                 planVars, topicVars, loading, error, server, dashVars, mockVars, nudgeVars, toolVars>>

authResolves(i) ==
  /\ calls[i].kind = "auth"
  /\ user' = TRUE
  /\ authModalOpen' = FALSE
  /\ step' = 0
  /\ authLoading' = FALSE
  /\ currentQuestion' = Remount(currentQuestion)
  /\ UNCHANGED <<syllabusConfirmed, authError, selVars, levelVars, quiz, answers, quizScore, weakChapters,
                 planVars, topicVars, error, server, dashVars, mockVars, nudgeVars, toolVars>>
  /\ Effect(Append(Remove(calls, i), Call("progress", TRUE, NoEnv)), loading, FALSE)

authRejects(i) ==
  /\ calls[i].kind = "auth"
  /\ authError' = "Authentication failed"
  /\ authLoading' = FALSE
  /\ calls' = Remove(calls, i)
  /\ UNCHANGED <<syllabusConfirmed, step, user, authModalOpen, selVars, levelVars, quizVars,
                 planVars, topicVars, loading, error, server, dashVars, mockVars, nudgeVars, toolVars>>

\* Nav's Logout button: POST /auth/logout is awaited
handleLogout ==
  /\ Interactive
  /\ Len(calls) < MaxInflight
  /\ calls' = Append(calls, Call("logout", TRUE, NoEnv))
  /\ UNCHANGED <<step, authVars, selVars, syllabusConfirmed, levelVars, quizVars, planVars,
                 topicVars, loading, error, server, dashVars, mockVars, nudgeVars, toolVars>>

\* POST /auth/logout resolves: setUser(null); setAuthModalOpen(true); setStep(-1)
logoutResolves(i) ==
  /\ calls[i].kind = "logout"
  /\ user' = FALSE
  /\ authModalOpen' = TRUE
  /\ step' = -1
  /\ currentQuestion' = Remount(currentQuestion)
  /\ UNCHANGED <<authLoading, authError, selVars, syllabusConfirmed, levelVars, quiz, answers,
                 quizScore, weakChapters, planVars, topicVars, error, server, dashVars, mockVars,
                 nudgeVars, toolVars>>
  /\ Effect(Remove(calls, i), loading, FALSE)

logoutRejects(i) ==
  /\ calls[i].kind = "logout"
  /\ error' = "Failed to logout"
  /\ calls' = Remove(calls, i)
  /\ UNCHANGED <<step, authVars, selVars, syllabusConfirmed, levelVars, quizVars, planVars,
                 topicVars, loading, server, dashVars, mockVars, nudgeVars, toolVars>>

\* fetchProgressAndStats (the effect of [user]): GET /progress resolves,
\* setProgress(progressRes.data), then GET /dashboard/stats is issued
progressResolves(i) ==
  /\ calls[i].kind = "progress"
  /\ progress' = ServerProgress
  /\ calls' = [calls EXCEPT ![i].kind = "stats"]
  /\ UNCHANGED <<step, authVars, selVars, syllabusConfirmed, levelVars, quizVars, studyPlan,
                 stats, completedTopics, completedChapters, topicVars, loading, error,
                 server, dashVars, mockVars, nudgeVars, toolVars>>

\* GET /dashboard/stats resolves: setStats(statsRes.data)
statsResolves(i) ==
  /\ calls[i].kind = "stats"
  /\ stats' = ServerStats
  /\ calls' = Remove(calls, i)
  /\ UNCHANGED <<step, authVars, selVars, syllabusConfirmed, levelVars, quizVars, studyPlan,
                 progress, completedTopics, completedChapters, topicVars, loading, error,
                 server, dashVars, mockVars, nudgeVars, toolVars>>

\* either request of fetchProgressAndStats fails
progressStatsRejects(i) ==
  /\ calls[i].kind \in {"progress", "stats"}
  /\ error' = "Failed to load progress or stats"
  /\ calls' = Remove(calls, i)
  /\ UNCHANGED <<step, authVars, selVars, syllabusConfirmed, levelVars, quizVars, planVars,
                 topicVars, loading, server, dashVars, mockVars, nudgeVars, toolVars>>

dismissError ==
  /\ error # ""
  /\ error' = ""
  /\ UNCHANGED <<syllabusConfirmed, step, authVars, selVars, levelVars, quizVars, planVars, topicVars,
                 loading, calls, server, dashVars, mockVars, nudgeVars, toolVars>>

(***************************************************************************)
(* Steps 0 to 3: board, subject, syllabus, prior marks                     *)
(***************************************************************************)
setBoard(b) ==
  /\ step = 0 /\ Interactive
  /\ board' = b
  /\ UNCHANGED <<extraChapters, syllabusConfirmed, step, authVars, selectedSubject, subjects, chapters, levelVars,
                 quizVars, planVars, topicVars, error, server, dashVars, mockVars, nudgeVars, toolVars>>
  /\ Effect(calls, loading, FALSE)

\* "Start Your Quest", disabled={!board || !classNum}
startQuest ==
  /\ step = 0 /\ Interactive /\ board # ""
  /\ Len(calls) < MaxInflight
  /\ step' = 1
  /\ currentQuestion' = Remount(currentQuestion)
  /\ UNCHANGED <<syllabusConfirmed, authVars, selVars, levelVars, quiz, answers, quizScore, weakChapters,
                 planVars, topicVars, error, server, dashVars, mockVars, nudgeVars, toolVars>>
  /\ Effect(calls, loading, FALSE)

\* a click on a subject card
setSelectedSubject(i) ==
  /\ step = 1 /\ Interactive
  /\ i \in DOMAIN subjects
  /\ Len(calls) < MaxInflight
  /\ selectedSubject' = subjects[i]
  /\ UNCHANGED <<extraChapters, syllabusConfirmed, step, authVars, board, subjects, chapters, levelVars, quizVars,
                 planVars, topicVars, error, server, dashVars, mockVars, nudgeVars, toolVars>>
  /\ Effect(calls, loading, FALSE)

\* "Embark on ... Quest", disabled={!selectedSubject}
embark ==
  /\ step = 1 /\ Interactive /\ selectedSubject # ""
  /\ Len(calls) < MaxInflight
  /\ step' = 2
  /\ currentQuestion' = Remount(currentQuestion)
  /\ UNCHANGED <<syllabusConfirmed, authVars, selVars, levelVars, quiz, answers, quizScore, weakChapters,
                 planVars, topicVars, error, server, dashVars, mockVars, nudgeVars, toolVars>>
  /\ Effect(calls, loading, FALSE)

handleConfirmSyllabus(correct) ==
  /\ step = 2 /\ Interactive
  /\ UNCHANGED <<authVars, selVars, levelVars, quiz, answers, quizScore, weakChapters,
                 planVars, topicVars, error, server, dashVars, mockVars, nudgeVars, toolVars>>
  /\ IF correct
       THEN /\ syllabusConfirmed' = TRUE
            /\ step' = 3
            /\ currentQuestion' = Remount(currentQuestion)
            /\ Effect(calls, loading, FALSE)
       ELSE /\ Len(calls) < MaxInflight
            /\ loading' = TRUE
            /\ calls' = Append(calls, Call("regenerate", TRUE, NoEnv))
            /\ UNCHANGED <<step, syllabusConfirmed, currentQuestion>>

regenerateResolves(i) ==
  /\ calls[i].kind = "regenerate"
  /\ chapters' = Syllabus
  /\ loading' = FALSE
  /\ calls' = Remove(calls, i)
  /\ UNCHANGED <<extraChapters, step, authVars, board, selectedSubject, subjects, syllabusConfirmed,
                 levelVars, quizVars, planVars, topicVars, error, server,
                 dashVars, mockVars, nudgeVars, toolVars>>

regenerateRejects(i) ==
  /\ calls[i].kind = "regenerate"
  /\ error' = "Failed to regenerate syllabus"
  /\ loading' = FALSE
  /\ calls' = Remove(calls, i)
  /\ UNCHANGED <<step, authVars, selVars, syllabusConfirmed, levelVars, quizVars,
                 planVars, topicVars, server, dashVars, mockVars, nudgeVars, toolVars>>

\* onChange of the marks input: setPreviousMarks(Number(e.target.value))
setPreviousMarks(m) ==
  /\ step = 3 /\ Interactive
  /\ previousMarks' = <<m>>
  /\ UNCHANGED <<step, authVars, selVars, syllabusConfirmed, knowledgeLevel, quizVars,
                 planVars, topicVars, loading, error, calls, server, dashVars, mockVars, nudgeVars, toolVars>>

handleMarksSubmit ==
  /\ step = 3 /\ Interactive
  /\ IF previousMarks # Null
       THEN /\ Len(calls) < MaxInflight
            /\ knowledgeLevel' = LevelOfMarks(previousMarks[1])
            /\ step' = 4
            /\ error' = error
       ELSE /\ error' = "Please enter your marks"
            /\ UNCHANGED <<knowledgeLevel, step>>
  /\ currentQuestion' = Remount(currentQuestion)
  /\ UNCHANGED <<authVars, selVars, syllabusConfirmed, previousMarks, quiz, answers,
                 quizScore, weakChapters, planVars, topicVars, server, dashVars, mockVars, nudgeVars, toolVars>>
  /\ Effect(calls, loading, FALSE)

(***************************************************************************)
(* QuizInterface (steps 4, 8, 9, 10)                                       *)
(***************************************************************************)
\* the quiz type whose QuizInterface the step renders, "" for the other steps
TypeOfStep(s) ==
  CASE s = 4 -> "initial"
    [] s = 8 -> "topic"
    [] s = 9 -> "chapter"
    [] s = 10 -> "three_chapter"
    [] OTHER -> ""

\* a question is on screen: quiz.length > 0 and quiz[currentQuestion] exists
QuestionShown(type) ==
  /\ TypeOfStep(step) = type
  /\ Interactive
  /\ currentQuestion < Len(quiz[type])

\* onChange of an option's radio button
handleAnswer(type, option) ==
  /\ QuestionShown(type)
  /\ option \in quiz[type][currentQuestion + 1].options
  /\ answers' = [answers EXCEPT ![type] = WithAnswer(@, currentQuestion, option)]
  /\ UNCHANGED <<step, authVars, selVars, syllabusConfirmed, levelVars, quiz, quizScore,
                 weakChapters, currentQuestion, planVars, topicVars, loading, error,
                 calls, server, dashVars, mockVars, nudgeVars, toolVars>>

\* "Next", rendered unless currentQuestion === quiz.length - 1
handleNext(type) ==
  /\ QuestionShown(type)
  /\ currentQuestion # Len(quiz[type]) - 1
  /\ currentQuestion' = IF currentQuestion < Len(quiz[type]) - 1
                          THEN currentQuestion + 1 ELSE currentQuestion
  /\ UNCHANGED <<step, authVars, selVars, syllabusConfirmed, levelVars, quiz, answers,
                 quizScore, weakChapters, planVars, topicVars, loading, error,
                 calls, server, dashVars, mockVars, nudgeVars, toolVars>>

\* "Previous", disabled={currentQuestion === 0}
handlePrevious(type) ==
  /\ QuestionShown(type)
  /\ currentQuestion # 0
  /\ currentQuestion' = IF currentQuestion > 0 THEN currentQuestion - 1 ELSE currentQuestion
  /\ UNCHANGED <<step, authVars, selVars, syllabusConfirmed, levelVars, quiz, answers,
                 quizScore, weakChapters, planVars, topicVars, loading, error,
                 calls, server, dashVars, mockVars, nudgeVars, toolVars>>

\* "Submit Quiz" is rendered on the last question and
\* disabled={Object.keys(answers).length !== quiz.length}
SubmitEnabled(type) ==
  /\ QuestionShown(type)
  /\ currentQuestion = Len(quiz[type]) - 1
  /\ Cardinality(DOMAIN answers[type]) = Len(quiz[type])

(***************************************************************************)
(* Quiz submission                                                         *)
(***************************************************************************)
\* a plausible slip: the topic branch returns to the topic (step 7)
StepAfterQuiz_topicStays(type, current) ==
  IF type = "initial" THEN current
  ELSE IF type = "topic" THEN 7
  ELSE IF type = "chapter" /\ Len(completedChapters) >= 3 THEN 10
  ELSE 6

\* the step handleQuizSubmit sets for a quiz type (the initial quiz sets none)
StepAfterQuiz(type, current) ==
  IF type = "initial" THEN current
  ELSE IF type = "topic" THEN 6
  ELSE IF type = "chapter" /\ Len(completedChapters) >= 3 THEN 10
  ELSE 6

\* the weak chapters handleQuizSubmit leaves in the wizard state, before
\* handleInitialQuizSubmit runs: setWeakChapters([...new Set(weak)]) when the
\* score ratio is below 0.6
PersistedWeak(type, result) ==
  IF BelowThreshold(result.score, Len(quiz[type]))
    THEN Dedupe(result.weak) ELSE weakChapters

\* variant: only the chapters that were not weak before are kept
WeakAfterSubmit_newOnly(type, result, own) ==
  LET fresh(c) == c \notin Range(weakChapters)
  IN IF type = "initial" THEN SelectSeq(own.weak, fresh)
     ELSE PersistedWeak(type, result)

\* the weak chapters in the wizard state when the handler reaches its first
\* await: for the initial quiz handleInitialQuizSubmit has then run
\* setWeakChapters(weak) with its own list
WeakAfterSubmit(type, result, own) ==
  IF type = "initial" THEN own.weak ELSE PersistedWeak(type, result)

\* handleQuizSubmit(type) up to its first await; for the initial quiz this
\* includes handleInitialQuizSubmit up to its POST /study-plans
\* a plausible slip: the raw score is sent as the percentage
ProgressBody_rawScore(type, score, length) ==
  [task_id |-> type, completed |-> TRUE, score |-> score, outOf |-> 100]

\* the body of PUT /progress after a quiz: task_id is the quiz type (and the
\* time of the call), score is (score / quiz.length) * 100, kept as the
\* fraction score over outOf
ProgressBody(type, score, length) ==
  [task_id |-> type, completed |-> TRUE, score |-> score, outOf |-> length]

handleQuizSubmit(type) ==
  /\ SubmitEnabled(type)
  /\ Len(calls) < MaxInflight
  /\ LET result == QuizLoop(type, quiz[type], answers[type], weakChapters,
                            selectedChapter, Len(quiz[type]))
         own == InitialLoop(quiz["initial"], answers["initial"], Len(quiz["initial"]))
     IN /\ quizScore' = IF type = "initial" THEN <<own.score>> ELSE <<result.score>>
        /\ weakChapters' = WeakAfterSubmit(type, result, own)
        /\ step' = StepAfterQuiz(type, step)
        /\ currentSubtopic' = IF type = "topic" THEN "" ELSE currentSubtopic
        /\ currentQuestion' = Remount(currentQuestion)
        /\ UNCHANGED <<authVars, selVars, syllabusConfirmed, levelVars, quiz, answers,
                       planVars, selectedChapter, selectedTopic, subtopics, error,
                       server, dashVars, mockVars, nudgeVars, toolVars>>
        /\ Effect(Append(calls,
                    IF type = "initial"
                      THEN Call("createPlan", TRUE,
                                [subject |-> selectedSubject, weak_chapters |-> own.weak,
                                 extra_chapters |-> extraChapters])
                      ELSE Call("quizProgress", TRUE,
                                ProgressBody(type, result.score, Len(quiz[type])))),
                  loading, FALSE)

\* variant: the reply leads to the extra-chapter selection of step 5
createPlanResolves_toExtras(i) ==
  /\ calls[i].kind = "createPlan"
  /\ server' = [server EXCEPT !.plan = Catalogue[server.catalogue].plan]
  /\ studyPlan' = server'.plan
  /\ step' = 5
  /\ currentQuestion' = Remount(currentQuestion)
  /\ UNCHANGED <<authVars, selVars, syllabusConfirmed, levelVars, quiz, answers, quizScore,
                 weakChapters, progress, stats, completedTopics, completedChapters,
                 topicVars, error, dashVars, mockVars, nudgeVars, toolVars>>
  /\ Effect(Remove(calls, i), loading, FALSE)

\* POST /study-plans resolves: setStudyPlan(res.data.plan_data); setStep(6)
createPlanResolves(i) ==
  /\ calls[i].kind = "createPlan"
  /\ server' = [server EXCEPT !.plan = Catalogue[server.catalogue].plan]
  /\ studyPlan' = server'.plan
  /\ step' = 6
  /\ currentQuestion' = Remount(currentQuestion)
  /\ UNCHANGED <<authVars, selVars, syllabusConfirmed, levelVars, quiz, answers, quizScore,
                 weakChapters, progress, stats, completedTopics, completedChapters,
                 topicVars, error, dashVars, mockVars, nudgeVars, toolVars>>
  /\ Effect(Remove(calls, i), loading, FALSE)

createPlanRejects(i) ==
  /\ calls[i].kind = "createPlan"
  /\ error' = "Failed to generate study plan"
  /\ calls' = Remove(calls, i)
  /\ UNCHANGED <<step, authVars, selVars, syllabusConfirmed, levelVars, quizVars, planVars,
                 topicVars, loading, server, dashVars, mockVars, nudgeVars, toolVars>>

\* PUT /progress of a quiz resolves: nothing follows the await
quizProgressResolves(i) ==
  /\ calls[i].kind = "quizProgress"
  /\ calls' = Remove(calls, i)
  /\ UNCHANGED <<step, authVars, selVars, syllabusConfirmed, levelVars, quizVars, planVars,
                 topicVars, loading, error, server, dashVars, mockVars, nudgeVars, toolVars>>

quizProgressRejects(i) ==
  /\ calls[i].kind = "quizProgress"
  /\ error' = "Failed to save quiz progress"
  /\ calls' = Remove(calls, i)
  /\ UNCHANGED <<step, authVars, selVars, syllabusConfirmed, levelVars, quizVars, planVars,
                 topicVars, loading, server, dashVars, mockVars, nudgeVars, toolVars>>

(***************************************************************************)
(* Steps 6 and 7: the plan dashboard and topic learning                    *)
(***************************************************************************)
\* StudyPlanMap onTaskClick(week, task.id) for the card of studyPlan[k]
onTaskClick(k) ==
  /\ step = 6 /\ Interactive
  /\ k \in DOMAIN studyPlan
  /\ Len(calls) < MaxInflight
  /\ LET found == FindTask(studyPlan, studyPlan[k].week, studyPlan[k].id)
         task == studyPlan[found]
     IN /\ selectedChapter' = task.chapter
        /\ selectedTopic' = task.topic
        /\ currentSubtopic' = task.subtopic
  /\ step' = 7
  /\ currentQuestion' = Remount(currentQuestion)
  /\ UNCHANGED <<authVars, selVars, syllabusConfirmed, levelVars, quiz, answers, quizScore,
                 weakChapters, planVars, subtopics, error, server, dashVars, mockVars, nudgeVars, toolVars>>
  /\ Effect(calls, loading, FALSE)

\* "Take Topic Quiz"
takeTopicQuiz ==
  /\ step = 7 /\ Interactive
  /\ Len(calls) < MaxInflight
  /\ step' = 8
  /\ currentQuestion' = Remount(currentQuestion)
  /\ UNCHANGED <<authVars, selVars, syllabusConfirmed, levelVars, quiz, answers, quizScore,
                 weakChapters, planVars, topicVars, error, server, dashVars, mockVars, nudgeVars, toolVars>>
  /\ Effect(calls, loading, FALSE)

\* the closure of a handleTaskCompletion(week, taskId) call suspended at an
\* await
CompletionEnv(week, taskId, task) ==
  [week |-> week, task_id |-> taskId, task |-> task, studyPlan |-> studyPlan,
   progress |-> progress, completedTopics |-> completedTopics,
   completedChapters |-> completedChapters]

\* a plausible slip: the "if (!task) return" guard dropped
completeTask_noLookup(week, taskId) ==
  LET found == FindTask(studyPlan, week, taskId)
      task == IF found = 0 THEN Task(taskId, week, "", "", "", FALSE) ELSE studyPlan[found]
  IN /\ calls' = Append(calls, Call("taskProgress", TRUE, CompletionEnv(week, taskId, task)))
     /\ UNCHANGED <<step, authVars, selVars, syllabusConfirmed, levelVars, quizVars,
                    planVars, topicVars, loading, error, server, dashVars, mockVars, nudgeVars, toolVars>>

\* handleTaskCompletion(week, taskId) up to its first await: the lookup in
\* the week's list, "if (!task) return", PUT /task-progress
completeTask(week, taskId) ==
  LET found == FindTask(studyPlan, week, taskId)
  IN IF found = 0
       THEN UNCHANGED vars
       ELSE /\ calls' = Append(calls, Call("taskProgress", TRUE,
                                            CompletionEnv(week, taskId, studyPlan[found])))
            /\ UNCHANGED <<step, authVars, selVars, syllabusConfirmed, levelVars, quizVars,
                           planVars, topicVars, loading, error, server, dashVars, mockVars, nudgeVars, toolVars>>

\* "Mark Complete" on the card of studyPlan[k] (rendered while the task is
\* not completed): handleTaskCompletion(week, task.id) up to its first await
handleTaskCompletion(k) ==
  /\ step = 6 /\ Interactive
  /\ k \in DOMAIN studyPlan
  /\ ~studyPlan[k].completed
  /\ Len(calls) < MaxInflight
  /\ FindTask(studyPlan, studyPlan[k].week, studyPlan[k].id) # 0
  /\ completeTask(studyPlan[k].week, studyPlan[k].id)

\* the handleTaskCompletion calls suspended at one of their two awaits
TaskCalls(cs) == SelectSeq(cs, LAMBDA c : c.kind \in {"taskProgress", "taskRecord"})

\* "Mark Complete" on the card of studyPlan[k] while another completion is
\* awaiting a reply (the handler sets no loading flag, the cards stay
\* clickable): one more request in flight than MaxInflight
handleTaskCompletionBeside(k) ==
  /\ step = 6 /\ Interactive
  /\ k \in DOMAIN studyPlan
  /\ ~studyPlan[k].completed
  /\ calls # <<>> /\ TaskCalls(calls) = calls
  /\ Len(calls) <= MaxInflight
  /\ \A i \in DOMAIN calls : calls[i].env.task_id # studyPlan[k].id
  /\ FindTask(studyPlan, studyPlan[k].week, studyPlan[k].id) # 0
  /\ completeTask(studyPlan[k].week, studyPlan[k].id)

\* handleTaskCompletion called with any week and task id, for a task of the
\* plan that is not completed or for one the week's list lacks
CallWeeks == {"1", "2"}
CallIds == {1, 2, 3}
handleTaskCompletionCall(week, taskId) ==
  /\ step = 6 /\ Interactive
  /\ Len(calls) < MaxInflight
  /\ LET found == FindTask(studyPlan, week, taskId)
     IN found # 0 => ~studyPlan[found].completed
  /\ completeTask(week, taskId)

\* a plausible slip: the returned plan is adopted only after the second write
taskProgressResolves_deferred(i) ==
  /\ calls[i].kind = "taskProgress"
  /\ server' = [server EXCEPT
                  !.plan = MarkComplete(@, calls[i].env.week, calls[i].env.task_id)]
  /\ calls' = [calls EXCEPT ![i].kind = "taskRecord"]
  /\ UNCHANGED <<step, authVars, selVars, syllabusConfirmed, levelVars, quizVars, planVars,
                 topicVars, loading, error, dashVars, mockVars, nudgeVars, toolVars>>

\* PUT /task-progress resolves: setStudyPlan(res.data.plan_data), then
\* PUT /progress is issued
taskProgressResolves(i) ==
  /\ calls[i].kind = "taskProgress"
  /\ server' = [server EXCEPT
                  !.plan = MarkComplete(@, calls[i].env.week, calls[i].env.task_id)]
  /\ studyPlan' = server'.plan
  /\ calls' = [calls EXCEPT ![i].kind = "taskRecord"]
  /\ UNCHANGED <<step, authVars, selVars, syllabusConfirmed, levelVars, quizVars, progress,
                 stats, completedTopics, completedChapters, topicVars, loading, error,
                 dashVars, mockVars, nudgeVars, toolVars>>

taskProgressRejects(i) ==
  /\ calls[i].kind = "taskProgress"
  /\ error' = "Failed to update task progress"
  /\ calls' = Remove(calls, i)
  /\ UNCHANGED <<step, authVars, selVars, syllabusConfirmed, levelVars, quizVars, planVars,
                 topicVars, loading, server, dashVars, mockVars, nudgeVars, toolVars>>

\* the plan whose tasks handleTaskCompletion tests after both writes: the
\* studyPlan of the handler's closure
PlanTested(env) == env.studyPlan

\* PUT /progress resolves: setProgress([...progress, progressRes.data]) and
\* the topic/chapter completion checks
taskRecordResolves(i) ==
  /\ calls[i].kind = "taskRecord"
  /\ LET env == calls[i].env
         task == env.task
         topicDone == TopicTasksComplete(PlanTested(env), task)
         chapterDone == ChapterTasksComplete(PlanTested(env), task)
     IN /\ progress' = Append(env.progress,
                         [task_id |-> env.task_id, completed |-> TRUE, score |-> Null])
        /\ completedTopics' = IF topicDone
                                THEN Dedupe(Append(env.completedTopics, task.topic))
                                ELSE completedTopics
        /\ completedChapters' = IF chapterDone
                                  THEN Dedupe(Append(env.completedChapters, task.chapter))
                                  ELSE completedChapters
        /\ selectedTopic' = IF topicDone THEN task.topic ELSE selectedTopic
        /\ selectedChapter' = IF topicDone \/ chapterDone THEN task.chapter
                              ELSE selectedChapter
        /\ step' = IF chapterDone THEN 9 ELSE IF topicDone THEN 8 ELSE step
        /\ currentQuestion' = Remount(currentQuestion)
        /\ UNCHANGED <<authVars, selVars, syllabusConfirmed, levelVars, quiz, answers,
                       quizScore, weakChapters, studyPlan, stats, currentSubtopic,
                       subtopics, error, server, dashVars, mockVars, nudgeVars, toolVars>>
        /\ Effect(Remove(calls, i), loading, chapterDone)

taskRecordRejects(i) ==
  /\ calls[i].kind = "taskRecord"
  /\ error' = "Failed to update task progress"
  /\ calls' = Remove(calls, i)
  /\ UNCHANGED <<step, authVars, selVars, syllabusConfirmed, levelVars, quizVars, planVars,
                 topicVars, loading, server, dashVars, mockVars, nudgeVars, toolVars>>

(***************************************************************************)
(* The data-fetching effect: the continuation of fetchData after its await *)
(***************************************************************************)
\* the counters of the step 6 scan of planData
CountComplete(plan) == Cardinality({k \in DOMAIN plan : plan[k].completed})
\* a plausible slip: the !task.completed test of the missed counter dropped
CountMissed_allLate(plan) == Cardinality({k \in DOMAIN plan : plan[k].late})
CountMissed(plan) == Cardinality({k \in DOMAIN plan : ~plan[k].completed /\ plan[k].late})

\* res.data.find(p => p.subject === selectedSubject)?.plan_data || {}
PlanFor(subject) == IF subject = SubjectList[1] THEN server.plan ELSE <<>>

fetchResolves(i) ==
  /\ calls[i].kind \in FetchKinds
  /\ LET kind == calls[i].kind
         env == calls[i].env
         planData == PlanFor(env.subject)
     IN /\ subjects' = IF kind = "subjects" THEN SubjectList ELSE subjects
        /\ chapters' = IF kind = "syllabus" THEN Syllabus ELSE chapters
        /\ quiz' = IF kind = "initial"
                     THEN [quiz EXCEPT ![kind] = Catalogue[server.catalogue].initial]
                   ELSE IF kind \in QuizTypes
                     THEN [quiz EXCEPT ![kind] = Catalogue[server.catalogue].other]
                   ELSE quiz
        /\ studyPlan' = IF kind = "plan" THEN planData ELSE studyPlan
        /\ stats' = IF kind = "plan"
                      THEN [env.stats EXCEPT !.completedTasks = CountComplete(planData),
                                             !.totalTasks = Len(planData)]
                      ELSE stats
        /\ nudgeArgs' = IF kind = "plan"
                          THEN [completed |-> CountComplete(planData),
                                total |-> Len(planData),
                                missed |-> CountMissed(planData), weak |-> env.weak]
                          ELSE nudgeArgs
        /\ nudge' = IF kind = "plan"
                      THEN generateNudge(CountComplete(planData), Len(planData),
                                         CountMissed(planData), env.weak)
                      ELSE nudge
        /\ subtopics' = IF kind = "subtopics" THEN SubtopicList ELSE subtopics
        /\ currentSubtopic' = IF kind = "subtopics" /\ Len(SubtopicList) > 0
                                THEN SubtopicList[1] ELSE currentSubtopic
  /\ loading' = IF calls[i].mounted THEN FALSE ELSE loading
  /\ calls' = Remove(calls, i)
  /\ UNCHANGED <<step, authVars, board, selectedSubject, extraChapters, syllabusConfirmed,
                 levelVars, answers, quizScore, weakChapters, currentQuestion, progress,
                 completedTopics, completedChapters, selectedChapter, selectedTopic,
                 error, server, dashVars, mockVars, toolVars>>

\* a plausible slip: a failed fetch is sent again by the catch block
fetchRejects_retries(i) ==
  /\ calls[i].kind \in FetchKinds
  /\ error' = "Failed to load data"
  /\ loading' = loading
  /\ calls' = Append(Remove(calls, i), calls[i])
  /\ UNCHANGED <<step, authVars, selVars, syllabusConfirmed, levelVars, quizVars, planVars,
                 topicVars, server, dashVars, mockVars, nudgeVars, toolVars>>

fetchRejects(i) ==
  /\ calls[i].kind \in FetchKinds
  /\ error' = "Failed to load data"
  /\ loading' = IF calls[i].mounted THEN FALSE ELSE loading
  /\ calls' = Remove(calls, i)
  /\ UNCHANGED <<step, authVars, selVars, syllabusConfirmed, levelVars, quizVars, planVars,
                 topicVars, server, dashVars, mockVars, nudgeVars, toolVars>>

(***************************************************************************)
(* Step 6: rescheduling missed tasks                                       *)
(***************************************************************************)
\* the values of the date input: empty, or a picked day
Dates == {"", "2025-01-10"}

\* onChange of the date input
setMissedDate(d) ==
  /\ step = 6 /\ Interactive
  /\ missedDate' = d
  /\ UNCHANGED <<step, authVars, selVars, syllabusConfirmed, levelVars, quizVars, planVars,
                 topicVars, chatHistory, message, loading, error, calls, server, dashVars, mockVars,
                 nudgeVars>>

\* what the handleReschedule closure reads after its await
RescheduleEnv == [subject |-> selectedSubject, missed_date |-> missedDate,
                  stats |-> stats, weak |-> weakChapters]

\* the plan PUT /reschedule returns: the tasks that were missed are given
\* days to come
Rescheduled(plan) ==
  [k \in DOMAIN plan |->
     IF plan[k].completed THEN plan[k] ELSE [plan[k] EXCEPT !.late = FALSE]]

\* the Reschedule button
handleReschedule ==
  /\ step = 6 /\ Interactive
  /\ IF missedDate = ""
       THEN /\ error' = "Please select a missed date"
            /\ UNCHANGED calls
       ELSE /\ Len(calls) < MaxInflight
            /\ calls' = Append(calls, Call("reschedule", TRUE, RescheduleEnv))
            /\ UNCHANGED error
  /\ UNCHANGED <<step, authVars, selVars, syllabusConfirmed, levelVars, quizVars, planVars,
                 topicVars, loading, server, dashVars, mockVars, nudgeVars, toolVars>>

\* a plausible slip: the date box is not emptied after a reschedule
rescheduleResolves_keepsDate(i) ==
  /\ calls[i].kind = "reschedule"
  /\ LET env == calls[i].env
     IN /\ server' = [server EXCEPT !.plan = Rescheduled(@)]
        /\ studyPlan' = server'.plan
        /\ nudgeArgs' = [completed |-> env.stats.completedTasks,
                         total |-> env.stats.totalTasks, missed |-> 0, weak |-> env.weak]
        /\ nudge' = generateNudge(env.stats.completedTasks, env.stats.totalTasks, 0, env.weak)
  /\ calls' = Remove(calls, i)
  /\ UNCHANGED <<step, authVars, selVars, syllabusConfirmed, levelVars, quizVars, progress,
                 stats, completedTopics, completedChapters, topicVars, toolVars,
                 loading, error, dashVars, mockVars>>

\* PUT /reschedule resolves: setStudyPlan(res.data.plan_data), setNudge(...),
\* setMissedDate('')
rescheduleResolves(i) ==
  /\ calls[i].kind = "reschedule"
  /\ LET env == calls[i].env
     IN /\ server' = [server EXCEPT !.plan = Rescheduled(@)]
        /\ studyPlan' = server'.plan
        /\ nudgeArgs' = [completed |-> env.stats.completedTasks,
                         total |-> env.stats.totalTasks, missed |-> 0, weak |-> env.weak]
        /\ nudge' = generateNudge(env.stats.completedTasks, env.stats.totalTasks, 0, env.weak)
  /\ missedDate' = ""
  /\ calls' = Remove(calls, i)
  /\ UNCHANGED <<step, authVars, selVars, syllabusConfirmed, levelVars, quizVars, progress,
                 stats, completedTopics, completedChapters, topicVars, chatHistory, message,
                 loading, error, dashVars, mockVars>>

rescheduleRejects(i) ==
  /\ calls[i].kind = "reschedule"
  /\ error' = "Failed to reschedule tasks"
  /\ calls' = Remove(calls, i)
  /\ UNCHANGED <<step, authVars, selVars, syllabusConfirmed, levelVars, quizVars, planVars,
                 topicVars, loading, server, dashVars, mockVars, nudgeVars, toolVars>>

(***************************************************************************)
(* Step 7: the tutor chat (AIChatInterface and handleChatSubmit)           *)
(***************************************************************************)
\* the texts of the chat box: sequences of characters, blank or not
Messages == {<<>>, <<" ">>, <<" ", " ">>, <<"a">>, <<" ", "a">>, <<"a", " ">>}

\* String.prototype.trim on such a text
RECURSIVE Trim(_)
Trim(m) ==
  IF m # <<>> /\ Head(m) = " " THEN Trim(Tail(m))
  ELSE IF m # <<>> /\ m[Len(m)] = " " THEN Trim(SubSeq(m, 1, Len(m) - 1))
  ELSE m

\* onChange of the chat box
setMessage(m) ==
  /\ step = 7 /\ Interactive
  /\ message' = m
  /\ UNCHANGED <<step, authVars, selVars, syllabusConfirmed, levelVars, quizVars, planVars,
                 topicVars, missedDate, chatHistory, loading, error, calls, server, dashVars, mockVars,
                 nudgeVars>>

\* a plausible slip: the test of chapter, topic and subtopic dropped
handleChatSubmit_unguarded(msg) ==
  /\ calls' = Append(calls, Call("chat", TRUE, [chatHistory |-> chatHistory, message |-> msg]))
  /\ UNCHANGED error

\* handleChatSubmit(message) up to its await
handleChatSubmit(msg) ==
  IF selectedChapter = "" \/ selectedTopic = "" \/ currentSubtopic = ""
    THEN /\ error' = "Please select a chapter, topic, and subtopic before chatting"
         /\ UNCHANGED calls
    ELSE /\ calls' = Append(calls, Call("chat", TRUE,
                                        [chatHistory |-> chatHistory, message |-> msg]))
         /\ UNCHANGED error

\* AIChatInterface.handleSend: the Send button or the Enter key
handleSend ==
  /\ step = 7 /\ Interactive
  /\ Len(calls) < MaxInflight
  /\ Len(chatHistory) < MaxChat
  /\ IF Trim(message) # <<>>
       THEN /\ handleChatSubmit(message)
            /\ message' = <<>>
       ELSE UNCHANGED <<message, error, calls>>
  /\ UNCHANGED <<step, authVars, selVars, syllabusConfirmed, levelVars, quizVars, planVars,
                 topicVars, missedDate, chatHistory, loading, server, dashVars, mockVars, nudgeVars>>

\* POST /chat resolves: setChatHistory([...chatHistory, user message, reply])
chatResolves(i) ==
  /\ calls[i].kind = "chat"
  /\ chatHistory' = calls[i].env.chatHistory \o
                      <<[role |-> "user", content |-> calls[i].env.message],
                        [role |-> "assistant", content |-> <<"a">>]>>
  /\ calls' = Remove(calls, i)
  /\ UNCHANGED <<step, authVars, selVars, syllabusConfirmed, levelVars, quizVars, planVars,
                 topicVars, missedDate, message, loading, error, server, dashVars, mockVars, nudgeVars>>

chatRejects(i) ==
  /\ calls[i].kind = "chat"
  /\ error' = "Failed to get chat response"
  /\ calls' = Remove(calls, i)
  /\ UNCHANGED <<step, authVars, selVars, syllabusConfirmed, levelVars, quizVars, planVars,
                 topicVars, loading, server, dashVars, mockVars, nudgeVars, toolVars>>

(***************************************************************************)
(* The wizard                                                              *)
(***************************************************************************)
Boards == {"", "CBSE"}
MarksSample == {59, 76}

\* the actions of the steps before the plan exists (-1 to 4)
NextOnboard ==
  \/ handleAuthSubmit
  \/ \E i \in DOMAIN calls : authResolves(i)
  \/ \E i \in DOMAIN calls : authRejects(i)
  \/ \E i \in DOMAIN calls : progressResolves(i)
  \/ \E i \in DOMAIN calls : statsResolves(i)
  \/ \E i \in DOMAIN calls : progressStatsRejects(i)
  \/ dismissError
  \/ \E b \in Boards : setBoard(b)
  \/ startQuest
  \/ \E i \in DOMAIN subjects : setSelectedSubject(i)
  \/ embark
  \/ \E correct \in BOOLEAN : handleConfirmSyllabus(correct)
  \/ \E i \in DOMAIN calls : regenerateResolves(i)
  \/ \E i \in DOMAIN calls : regenerateRejects(i)
  \/ \E m \in MarksSample : setPreviousMarks(m)
  \/ handleMarksSubmit
  \/ \E t \in QuizTypes, o \in Options : handleAnswer(t, o)
  \/ \E t \in QuizTypes : handleNext(t)
  \/ \E t \in QuizTypes : handlePrevious(t)
  \/ \E t \in QuizTypes : handleQuizSubmit(t)
  \/ \E i \in DOMAIN calls : createPlanResolves(i)
  \/ \E i \in DOMAIN calls : createPlanRejects(i)
  \/ \E i \in DOMAIN calls : fetchResolves(i)
  \/ \E i \in DOMAIN calls : fetchRejects(i)

\* the actions of the steps once the plan exists (6 to 10)
NextPlan ==
  \/ dismissError
  \/ \E t \in QuizTypes, o \in Options : handleAnswer(t, o)
  \/ \E t \in QuizTypes : handleNext(t)
  \/ \E t \in QuizTypes : handlePrevious(t)
  \/ \E t \in QuizTypes : handleQuizSubmit(t)
  \/ \E i \in DOMAIN calls : quizProgressResolves(i)
  \/ \E i \in DOMAIN calls : quizProgressRejects(i)
  \/ \E k \in DOMAIN studyPlan : onTaskClick(k)
  \/ takeTopicQuiz
  \/ \E k \in DOMAIN studyPlan : handleTaskCompletion(k)
  \/ \E i \in DOMAIN calls : taskProgressResolves(i)
  \/ \E i \in DOMAIN calls : taskProgressRejects(i)
  \/ \E i \in DOMAIN calls : taskRecordResolves(i)
  \/ \E i \in DOMAIN calls : taskRecordRejects(i)
  \/ \E i \in DOMAIN calls : fetchResolves(i)
  \/ \E i \in DOMAIN calls : fetchRejects(i)

Next == NextOnboard \/ NextPlan

\* signed in with a stored token, CBSE and Physics chosen, the syllabus
\* fetched and confirmed
SignedUp ==
  /\ user = TRUE
  /\ authModalOpen = FALSE
  /\ authLoading = FALSE
  /\ authError = ""
  /\ board = "CBSE"
  /\ selectedSubject = SubjectList[1]
  /\ subjects = SubjectList
  /\ chapters = Syllabus
  /\ extraChapters = <<>>
  /\ syllabusConfirmed = TRUE

\* the full answer mappings the Submit button accepts for a question list
FullAnswers(questions) == [0 .. Len(questions) - 1 -> Options]

\* The wizard as createPlanResolves leaves it after a sign-up without a failed
\* request (token found, CBSE, Physics, syllabus confirmed, marks 59, initial
\* quiz answered and submitted once): the plan is adopted, step 6 is entered
\* and its fetch is in flight.  SpecOnboard reaches each of these states.
ArrivalWith(servers) ==
  /\ SignedUp
  /\ step = 6
  /\ previousMarks = <<59>>
  /\ knowledgeLevel = LevelOfMarks(59)
  /\ server \in servers
  /\ quiz = [t \in QuizTypes |->
               IF t = "initial" THEN Catalogue[server.catalogue].initial ELSE <<>>]
  /\ answers \in {[t \in QuizTypes |-> IF t = "initial" THEN a ELSE <<>>] :
                     a \in FullAnswers(Catalogue[server.catalogue].initial)}
  /\ LET own == InitialLoop(quiz["initial"], answers["initial"], Len(quiz["initial"]))
     IN /\ quizScore = <<own.score>>
        /\ weakChapters = own.weak
  /\ currentQuestion = 0
  /\ studyPlan = server.plan
  /\ progress = <<>>
  /\ stats = NoStats
  /\ completedTopics = <<>>
  /\ completedChapters = <<>>
  /\ selectedChapter = ""
  /\ selectedTopic = ""
  /\ currentSubtopic = ""
  /\ subtopics = <<>>
  /\ ToolInit
  /\ loading = TRUE
  /\ error = ""
  /\ calls = <<Call("plan", TRUE, FetchEnv)>>

\* the arrival with the plan the student's generator produces
PlanArrival ==
  ArrivalWith({[catalogue |-> c, plan |-> Catalogue[c].plan] : c \in DOMAIN Catalogue})

\* plans of up to MaxStoredTasks tasks over two weeks, each task complete or
\* not and dated before today or not
StoredTask(k, done, late) ==
  [Task(k, IF k = 1 THEN "1" ELSE "2", "Motion", "Speed", "Average speed", late)
     EXCEPT !.completed = done]
StoredPlans ==
  UNION {{[k \in 1 .. n |-> StoredTask(k, f[k][1], f[k][2])] :
            f \in [1 .. n -> BOOLEAN \X BOOLEAN]} : n \in 0 .. MaxStoredTasks}

\* the arrival of a student whose stored plan is served by POST /study-plans
FetchArrival == ArrivalWith({[catalogue |-> 1, plan |-> p] : p \in StoredPlans})

\* The wizard as handleConfirmSyllabus leaves it on entry to step 3: no
\* branch of fetchData matches, nothing is in flight.  SpecOnboard reaches
\* each of these states.
MarksArrival ==
  /\ SignedUp
  /\ step = 3
  /\ previousMarks = Null
  /\ knowledgeLevel = "beginner"
  /\ server \in {[catalogue |-> c, plan |-> <<>>] : c \in DOMAIN Catalogue}
  /\ quiz = [t \in QuizTypes |-> <<>>]
  /\ answers = [t \in QuizTypes |-> <<>>]
  /\ quizScore = Null
  /\ weakChapters = <<>>
  /\ currentQuestion = 0
  /\ studyPlan = <<>>
  /\ progress = <<>>
  /\ stats = NoStats
  /\ completedTopics = <<>>
  /\ completedChapters = <<>>
  /\ selectedChapter = ""
  /\ selectedTopic = ""
  /\ currentSubtopic = ""
  /\ subtopics = <<>>
  /\ ToolInit
  /\ loading = FALSE
  /\ error = ""
  /\ calls = <<>>

\* the marks input: min="0" max="100"
MinMarks == 0
MaxMarks == 100
Marks == MinMarks .. MaxMarks

\* question lists a quiz request may be answered with
QuestionPool == {Question(a, c, t) : a \in Options, c \in {"", "Heat"}, t \in {"", "Speed"}}
QuestionLists == SeqsUpTo(QuestionPool, MaxQuizLen) \ {<<>>}

\* the answer mappings under which "Submit Quiz" is enabled for n questions:
\* n keys.  The keys need not be the n indices of the list: the mappings are
\* never reset, so a key may stem from a longer list shown under an earlier
\* sign-in.
AnswerMaps(n) ==
  UNION {[K -> Options] : K \in {K \in SUBSET (0 .. MaxQuizLen) : Cardinality(K) = n}}

\* The wizard in front of the last question of a fully answered quiz: the
\* initial assessment (step 4) or the topic quiz of the first task of the
\* plan (step 8, after the initial assessment on QuizOne, the step 6 fetch
\* and the step 7 fetch).
ScoreArrival ==
  /\ SignedUp
  /\ previousMarks = <<59>>
  /\ knowledgeLevel = LevelOfMarks(59)
  /\ step \in {4, 8}
  /\ server = [catalogue |-> 1, plan |-> IF step = 4 THEN <<>> ELSE Catalogue[1].plan]
  /\ \E qs \in QuestionLists :
       /\ quiz = [t \in QuizTypes |->
                    IF t = TypeOfStep(step) THEN qs
                    ELSE IF t = "initial" THEN QuizOne ELSE <<>>]
       /\ currentQuestion = Len(qs) - 1
       /\ \E a \in AnswerMaps(Len(qs)), first \in FullAnswers(QuizOne) :
            answers = [t \in QuizTypes |->
                         IF t = TypeOfStep(step) THEN a
                         ELSE IF t = "initial" THEN first ELSE <<>>]
  /\ LET own == InitialLoop(quiz["initial"], answers["initial"], Len(quiz["initial"]))
     IN /\ quizScore = IF step = 4 THEN Null ELSE <<own.score>>
        /\ weakChapters = IF step = 4 THEN <<>> ELSE own.weak
  /\ studyPlan = server.plan
  /\ progress = <<>>
  /\ stats = [completedTasks |-> CountComplete(studyPlan), totalTasks |-> Len(studyPlan)]
  /\ completedTopics = <<>>
  /\ completedChapters = <<>>
  /\ selectedChapter = IF step = 4 THEN "" ELSE studyPlan[1].chapter
  /\ selectedTopic = IF step = 4 THEN "" ELSE studyPlan[1].topic
  /\ subtopics = IF step = 4 THEN <<>> ELSE SubtopicList
  /\ ToolInit
  /\ currentSubtopic = IF step = 4 THEN "" ELSE SubtopicList[1]
  /\ loading = FALSE
  /\ error = ""
  /\ calls = <<>>

\* the nudge of the step 6 fetch that preceded a topic quiz
NudgeOfPlan ==
  IF step = 4 THEN nudgeArgs = NoArgs /\ nudge = NoNudge
  ELSE /\ nudgeArgs = [completed |-> CountComplete(studyPlan), total |-> Len(studyPlan),
                       missed |-> CountMissed(studyPlan), weak |-> weakChapters]
       /\ nudge = generateNudge(CountComplete(studyPlan), Len(studyPlan),
                                CountMissed(studyPlan), weakChapters)

(***************************************************************************)
(* Mock-test runner (MockTestsPage.tsx)                                    *)
(***************************************************************************)
\* what GET /quizzes serves: a test of two questions and a test of one
TestQuestion(answer) == [answer |-> answer, options |-> Options]
TestList ==
  <<[id |-> 1, question_data |-> <<TestQuestion("A"), TestQuestion("B")>>],
    [id |-> 2, question_data |-> <<TestQuestion("A")>>]>>
TestIds == {TestList[k].id : k \in DOMAIN TestList}
TestOfId(id) == CHOOSE t \in Range(TestList) : t.id = id

\* useState initial values, and the mount effect's fetchTests in flight
MockInit ==
  /\ selectedTest = Null
  /\ testQuestions = <<>>
  /\ testCurrentQuestion = 0
  /\ testAnswers = <<>>
  /\ showResults = FALSE
  /\ testResults = Null
  /\ tests = <<>>
  /\ gamifiedMode = FALSE
  /\ testProgress = {}
  /\ mockCalls = <<[kind |-> "fetchTests"]>>
  /\ mockServer = [id \in TestIds |-> Null]

\* which of the three returns of the component renders: the question screen
\* (selectedTest && !showResults), the results (showResults && testResults)
\* or the test list
TestView ==
  IF selectedTest # Null /\ ~showResults THEN "question"
  ELSE IF showResults /\ testResults # Null THEN "results"
  ELSE "list"

\* the records GET /progress serves
ServedProgress ==
  {[task_id |-> id, completed |-> TRUE, score |-> mockServer[id][1]] :
     id \in {i \in TestIds : mockServer[i] # Null}}

\* progressData.find(p => p.task_id === `quiz_${test.id}`)?.score || null
LastScoreOf(id) ==
  IF mockServer[id] # Null /\ mockServer[id][1] # 0 THEN mockServer[id] ELSE Null

\* fetchTests resolves: setProgress(progressData), setTests(...)
fetchTestsResolves(i) ==
  /\ mockCalls[i].kind = "fetchTests"
  /\ testProgress' = ServedProgress
  /\ tests' = [k \in DOMAIN TestList |->
                [id |-> TestList[k].id, completed |-> mockServer[TestList[k].id] # Null,
                 lastScore |-> LastScoreOf(TestList[k].id)]]
  /\ mockCalls' = Remove(mockCalls, i)
  /\ UNCHANGED <<selectedTest, testQuestions, testCurrentQuestion, testAnswers,
                 showResults, testResults, gamifiedMode, mockServer,
                 wizardVars, dashVars, nudgeVars>>

\* fetchTests fails: console.error
fetchTestsRejects(i) ==
  /\ mockCalls[i].kind = "fetchTests"
  /\ mockCalls' = Remove(mockCalls, i)
  /\ UNCHANGED <<selectedTest, testQuestions, testCurrentQuestion, testAnswers,
                 showResults, testResults, tests, gamifiedMode, testProgress, mockServer,
                 wizardVars, dashVars, nudgeVars>>

\* the mode switch of the question screen and of the test list:
\* setGamifiedMode(!gamifiedMode), and the effect runs fetchTests again
toggleGamifiedMode ==
  /\ TestView # "results"
  /\ Len(mockCalls) < MaxInflight
  /\ gamifiedMode' = ~gamifiedMode
  /\ mockCalls' = Append(mockCalls, [kind |-> "fetchTests"])
  /\ UNCHANGED <<selectedTest, testQuestions, testCurrentQuestion, testAnswers,
                 showResults, testResults, tests, testProgress, mockServer,
                 wizardVars, dashVars, nudgeVars>>

\* startTest(test)
startTest(id) ==
  /\ selectedTest' = <<id>>
  /\ testQuestions' = TestOfId(id).question_data
  /\ testCurrentQuestion' = 0
  /\ testAnswers' = <<>>
  /\ showResults' = FALSE
  /\ UNCHANGED <<testResults, tests, gamifiedMode, testProgress, mockCalls, mockServer,
                 wizardVars, dashVars, nudgeVars>>

\* the start button of the card of tests[k] in the test list
startListedTest(k) ==
  /\ TestView = "list"
  /\ k \in DOMAIN tests
  /\ startTest(tests[k].id)

\* "Retake Test" on the results screen: startTest(selectedTest!)
retakeTest ==
  /\ TestView = "results"
  /\ selectedTest # Null
  /\ startTest(selectedTest[1])

\* questions.forEach: answers[index] === q.answer ||
\* (index === currentQuestion && answer === q.answer)
CorrectCount(answer) ==
  Cardinality({n \in DOMAIN testQuestions :
                 \/ Ans(testAnswers, n - 1) = testQuestions[n].answer
                 \/ n - 1 = testCurrentQuestion /\ answer = testQuestions[n].answer})

\* Math.round((correct / questions.length) * 100)
RoundedScore(correct, total) == (200 * correct + total) \div (2 * total)

\* a click on an option of the question shown: submitAnswer(option) up to
\* its await; on the last question the results are stored and PUT /progress
\* is sent
submitAnswer(answer) ==
  /\ TestView = "question"
  /\ testCurrentQuestion < Len(testQuestions)
  /\ answer \in testQuestions[testCurrentQuestion + 1].options
  /\ testAnswers' = WithAnswer(testAnswers, testCurrentQuestion, answer)
  /\ IF testCurrentQuestion < Len(testQuestions) - 1
       THEN /\ testCurrentQuestion' = testCurrentQuestion + 1
            /\ UNCHANGED <<testResults, mockCalls>>
       ELSE LET correct == CorrectCount(answer)
                score == RoundedScore(correct, Len(testQuestions))
            IN /\ Len(mockCalls) < MaxInflight
               /\ testResults' = <<[score |-> score, correct |-> correct,
                                    total |-> Len(testQuestions),
                                    answers |-> WithAnswer(testAnswers, testCurrentQuestion,
                                                           answer)]>>
               /\ mockCalls' = Append(mockCalls, [kind |-> "putProgress",
                                                  id |-> selectedTest[1], score |-> score])
               /\ UNCHANGED testCurrentQuestion
  /\ UNCHANGED <<selectedTest, testQuestions, showResults, tests, gamifiedMode,
                 testProgress, mockServer, wizardVars, dashVars, nudgeVars>>

\* PUT /progress resolves: setProgress, setTests, then setShowResults(true)
putProgressResolves(i) ==
  /\ mockCalls[i].kind = "putProgress"
  /\ LET id == mockCalls[i].id
         score == mockCalls[i].score
     IN /\ mockServer' = [mockServer EXCEPT ![id] = <<score>>]
        /\ testProgress' = {p \in testProgress : p.task_id # id}
                             \cup {[task_id |-> id, completed |-> TRUE, score |-> score]}
        /\ tests' = [k \in DOMAIN tests |->
                      IF tests[k].id = id
                        THEN [tests[k] EXCEPT !.completed = TRUE, !.lastScore = <<score>>]
                        ELSE tests[k]]
  /\ showResults' = TRUE
  /\ mockCalls' = Remove(mockCalls, i)
  /\ UNCHANGED <<selectedTest, testQuestions, testCurrentQuestion, testAnswers,
                 testResults, gamifiedMode, wizardVars, dashVars, nudgeVars>>

\* PUT /progress fails: console.error, then setShowResults(true)
putProgressRejects(i) ==
  /\ mockCalls[i].kind = "putProgress"
  /\ showResults' = TRUE
  /\ mockCalls' = Remove(mockCalls, i)
  /\ UNCHANGED <<selectedTest, testQuestions, testCurrentQuestion, testAnswers,
                 testResults, tests, gamifiedMode, testProgress, mockServer,
                 wizardVars, dashVars, nudgeVars>>

\* "Back to Tests" on the results screen: setShowResults(false)
backToTests ==
  /\ TestView = "results"
  /\ showResults' = FALSE
  /\ UNCHANGED <<selectedTest, testQuestions, testCurrentQuestion, testAnswers,
                 testResults, tests, gamifiedMode, testProgress, mockCalls, mockServer,
                 wizardVars, dashVars, nudgeVars>>

NextMock ==
  \/ \E i \in DOMAIN mockCalls : fetchTestsResolves(i)
  \/ \E i \in DOMAIN mockCalls : fetchTestsRejects(i)
  \/ toggleGamifiedMode
  \/ \E k \in DOMAIN tests : startListedTest(k)
  \/ retakeTest
  \/ \E o \in Options : submitAnswer(o)
  \/ \E i \in DOMAIN mockCalls : putProgressResolves(i)
  \/ \E i \in DOMAIN mockCalls : putProgressRejects(i)
  \/ backToTests

Init == WizardInit /\ DashInit /\ MockInit /\ NudgeInit
InitPlan == PlanArrival /\ DashInit /\ MockInit /\ NudgeInit
InitMarks == MarksArrival /\ DashInit /\ MockInit /\ NudgeInit
InitScore == ScoreArrival /\ DashInit /\ MockInit /\ NudgeOfPlan

NextMarks ==
  \/ \E m \in Marks : setPreviousMarks(m)
  \/ handleMarksSubmit
  \/ dismissError

NextScore == \E t \in QuizTypes : handleQuizSubmit(t)

NextComplete ==
  \/ \E week \in CallWeeks, taskId \in CallIds : handleTaskCompletionCall(week, taskId)
  \/ \E i \in DOMAIN calls : taskProgressResolves(i)
  \/ \E i \in DOMAIN calls : taskProgressRejects(i)
  \/ \E i \in DOMAIN calls : taskRecordResolves(i)
  \/ \E i \in DOMAIN calls : taskRecordRejects(i)
  \/ \E i \in DOMAIN calls : fetchResolves(i)
  \/ \E i \in DOMAIN calls : fetchRejects(i)
  \/ dismissError

InitFetch == FetchArrival /\ DashInit /\ MockInit /\ NudgeInit
NextFetch ==
  \/ \E i \in DOMAIN calls : fetchResolves(i)
  \/ \E i \in DOMAIN calls : fetchRejects(i)
  \/ dismissError

\* the plan dashboard of a student with a stored plan: the plan fetch and
\* the reschedule box
NextReschedule ==
  \/ \E i \in DOMAIN calls : fetchResolves(i)
  \/ \E i \in DOMAIN calls : fetchRejects(i)
  \/ \E d \in Dates : setMissedDate(d)
  \/ handleReschedule
  \/ \E i \in DOMAIN calls : rescheduleResolves(i)
  \/ \E i \in DOMAIN calls : rescheduleRejects(i)
  \/ dismissError

\* the arrival of a student who pressed Logout and, before its reply, chose
\* a board and pressed "Start Your Quest": the subject fetch of step 1 is in
\* flight next to POST /auth/logout
LogoutArrival ==
  /\ user = TRUE
  /\ authModalOpen = FALSE
  /\ authLoading = FALSE
  /\ authError = ""
  /\ step = 1
  /\ board = "CBSE"
  /\ selectedSubject = ""
  /\ subjects = <<>>
  /\ chapters = <<>>
  /\ extraChapters = <<>>
  /\ syllabusConfirmed = FALSE
  /\ previousMarks = Null
  /\ knowledgeLevel = "beginner"
  /\ quiz = [t \in QuizTypes |-> <<>>]
  /\ answers = [t \in QuizTypes |-> <<>>]
  /\ quizScore = Null
  /\ weakChapters = <<>>
  /\ currentQuestion = 0
  /\ studyPlan = <<>>
  /\ progress = ServerProgress
  /\ stats = ServerStats
  /\ completedTopics = <<>>
  /\ completedChapters = <<>>
  /\ selectedChapter = ""
  /\ selectedTopic = ""
  /\ currentSubtopic = ""
  /\ subtopics = <<>>
  /\ ToolInit
  /\ loading = TRUE
  /\ error = ""
  /\ calls = <<Call("logout", TRUE, NoEnv),
               Call("subjects", TRUE, [subject |-> "", weak |-> <<>>, stats |-> ServerStats])>>
  /\ server \in {[catalogue |-> c, plan |-> <<>>] : c \in DOMAIN Catalogue}

\* the first steps of the wizard (-1 to 2) with the Logout button
NextStale ==
  \/ handleLogout
  \/ \E i \in DOMAIN calls : logoutResolves(i)
  \/ \E i \in DOMAIN calls : logoutRejects(i)
  \/ handleAuthSubmit
  \/ \E i \in DOMAIN calls : authResolves(i)
  \/ \E i \in DOMAIN calls : authRejects(i)
  \/ \E i \in DOMAIN calls : progressResolves(i)
  \/ \E i \in DOMAIN calls : statsResolves(i)
  \/ \E i \in DOMAIN calls : progressStatsRejects(i)
  \/ dismissError
  \/ \E b \in Boards : setBoard(b)
  \/ startQuest
  \/ \E i \in DOMAIN subjects : setSelectedSubject(i)
  \/ embark
  \/ \E i \in DOMAIN calls : fetchResolves(i)
  \/ \E i \in DOMAIN calls : fetchRejects(i)

InitStale == LogoutArrival /\ DashInit /\ MockInit /\ NudgeInit
SpecStale == InitStale /\ [][NextStale]_vars

\* the arrival of a student who pressed Logout at step 2 and, before its
\* reply, rejected the syllabus shown: the regeneration is in flight next to
\* POST /auth/logout
RegenerateArrival ==
  /\ user = TRUE
  /\ authModalOpen = FALSE
  /\ authLoading = FALSE
  /\ authError = ""
  /\ step = 2
  /\ board = "CBSE"
  /\ selectedSubject = SubjectList[1]
  /\ subjects = SubjectList
  /\ chapters = Syllabus
  /\ extraChapters = <<>>
  /\ syllabusConfirmed = FALSE
  /\ previousMarks = Null
  /\ knowledgeLevel = "beginner"
  /\ quiz = [t \in QuizTypes |-> <<>>]
  /\ answers = [t \in QuizTypes |-> <<>>]
  /\ quizScore = Null
  /\ weakChapters = <<>>
  /\ currentQuestion = 0
  /\ studyPlan = <<>>
  /\ progress = ServerProgress
  /\ stats = ServerStats
  /\ completedTopics = <<>>
  /\ completedChapters = <<>>
  /\ selectedChapter = ""
  /\ selectedTopic = ""
  /\ currentSubtopic = ""
  /\ subtopics = <<>>
  /\ ToolInit
  /\ loading = TRUE
  /\ error = ""
  /\ calls = <<Call("logout", TRUE, NoEnv), Call("regenerate", TRUE, NoEnv)>>
  /\ server \in {[catalogue |-> c, plan |-> <<>>] : c \in DOMAIN Catalogue}

\* steps -1 to 2 with the Logout button and the syllabus regeneration
NextLoad ==
  \/ NextStale
  \/ \E correct \in BOOLEAN : handleConfirmSyllabus(correct)
  \/ \E i \in DOMAIN calls : regenerateResolves(i)
  \/ \E i \in DOMAIN calls : regenerateRejects(i)
InitLoad == (LogoutArrival \/ RegenerateArrival) /\ DashInit /\ MockInit /\ NudgeInit
SpecLoad == InitLoad /\ [][NextLoad]_vars

\* stored plans of one task whose topic or subtopic may be missing
ChatPlans ==
  {<<Task(1, "1", "Motion", topic, subtopic, FALSE)>> :
     topic \in {"", "Speed"}, subtopic \in {"", "Average speed"}}

\* the arrival at the plan of a student with such a stored plan
ChatArrival == ArrivalWith({[catalogue |-> 1, plan |-> p] : p \in ChatPlans})

\* the handlers with a local precondition: marks (step 3), reschedule
\* (step 6) and chat (step 7)
InitLocal == (MarksArrival \/ ChatArrival) /\ DashInit /\ MockInit /\ NudgeInit
NextLocal ==
  \/ NextMarks
  \/ \E d \in Dates : setMissedDate(d)
  \/ handleReschedule
  \/ \E i \in DOMAIN calls : rescheduleResolves(i)
  \/ \E i \in DOMAIN calls : rescheduleRejects(i)
  \/ \E k \in DOMAIN studyPlan : onTaskClick(k)
  \/ \E m \in Messages : setMessage(m)
  \/ handleSend
  \/ \E i \in DOMAIN calls : chatResolves(i)
  \/ \E i \in DOMAIN calls : chatRejects(i)
  \/ \E i \in DOMAIN calls : fetchResolves(i)
  \/ \E i \in DOMAIN calls : fetchRejects(i)
SpecLocal == InitLocal /\ [][NextLocal]_vars

\* the arrival of a student who submitted the initial quiz and pressed
\* Logout before POST /study-plans answered: both requests are in flight at
\* step 4
SubmitLogoutArrival ==
  /\ SignedUp
  /\ step = 4
  /\ previousMarks = <<59>>
  /\ knowledgeLevel = LevelOfMarks(59)
  /\ server \in {[catalogue |-> c, plan |-> <<>>] : c \in DOMAIN Catalogue}
  /\ quiz = [t \in QuizTypes |->
               IF t = "initial" THEN Catalogue[server.catalogue].initial ELSE <<>>]
  /\ answers \in {[t \in QuizTypes |-> IF t = "initial" THEN a ELSE <<>>] :
                     a \in FullAnswers(Catalogue[server.catalogue].initial)}
  /\ LET own == InitialLoop(quiz["initial"], answers["initial"], Len(quiz["initial"]))
     IN /\ quizScore = <<own.score>>
        /\ weakChapters = own.weak
        /\ calls = <<Call("createPlan", TRUE,
                          [subject |-> selectedSubject, weak_chapters |-> own.weak,
                           extra_chapters |-> extraChapters]),
                     Call("logout", TRUE, NoEnv)>>
  /\ currentQuestion = Len(quiz["initial"]) - 1
  /\ studyPlan = <<>>
  /\ progress = ServerProgress
  /\ stats = ServerStats
  /\ completedTopics = <<>>
  /\ completedChapters = <<>>
  /\ selectedChapter = ""
  /\ selectedTopic = ""
  /\ currentSubtopic = ""
  /\ subtopics = <<>>
  /\ ToolInit
  /\ loading = FALSE
  /\ error = ""

\* the auth gate: logout and login next to the plan generation
NextGate ==
  \/ NextStale
  \/ \E i \in DOMAIN calls : createPlanResolves(i)
  \/ \E i \in DOMAIN calls : createPlanRejects(i)

InitGate == SubmitLogoutArrival /\ DashInit /\ MockInit /\ NudgeInit
SpecGate == InitGate /\ [][NextGate]_vars

\* the quiz generator behind POST /quizzes does not repeat itself: a
\* request may be answered with another question list than the one before
generatorMoves(c) ==
  /\ c \in DOMAIN Catalogue
  /\ \E i \in DOMAIN calls : calls[i].kind \in QuizTypes
  /\ server' = [server EXCEPT !.catalogue = c]
  /\ UNCHANGED <<step, authVars, selVars, syllabusConfirmed, levelVars, quizVars, planVars,
                 topicVars, loading, error, calls, dashVars, mockVars, nudgeVars, toolVars>>

\* the wizard from the marks entry on, taken again after a logout, with a
\* generator that varies its quizzes and requests that succeed
NextRetake ==
  \/ \E m \in MarksSample : setPreviousMarks(m)
  \/ handleMarksSubmit
  \/ \E o \in Options : handleAnswer("initial", o)
  \/ handleNext("initial")
  \/ handlePrevious("initial")
  \/ handleQuizSubmit("initial")
  \/ \E i \in DOMAIN calls : createPlanResolves(i)
  \/ \E i \in DOMAIN calls : fetchResolves(i)
  \/ \E c \in DOMAIN Catalogue : generatorMoves(c)
  \/ handleLogout
  \/ \E i \in DOMAIN calls : logoutResolves(i)
  \/ handleAuthSubmit
  \/ \E i \in DOMAIN calls : authResolves(i)
  \/ \E i \in DOMAIN calls : progressResolves(i)
  \/ \E i \in DOMAIN calls : statsResolves(i)
  \/ startQuest
  \/ embark
  \/ handleConfirmSyllabus(TRUE)
SpecRetake == InitMarks /\ [][NextRetake]_vars

\* the arrival of a student who pressed Logout at step 3, submitted the marks
\* (step 4, first quiz request) and, signed out by the reply, signed in and
\* walked to step 4 again: the second quiz request has been answered, the
\* first one is still in flight, its run cleaned up
StaleQuizArrival ==
  /\ SignedUp
  /\ step = 4
  /\ previousMarks \in {<<m>> : m \in MarksSample}
  /\ knowledgeLevel = LevelOfMarks(previousMarks[1])
  /\ server \in {[catalogue |-> c, plan |-> <<>>] : c \in DOMAIN Catalogue}
  /\ quiz \in {[t \in QuizTypes |-> IF t = "initial" THEN Catalogue[c].initial ELSE <<>>] :
                 c \in DOMAIN Catalogue}
  /\ answers = [t \in QuizTypes |-> <<>>]
  /\ quizScore = Null
  /\ weakChapters = <<>>
  /\ currentQuestion = 0
  /\ studyPlan = <<>>
  /\ progress = ServerProgress
  /\ stats = ServerStats
  /\ completedTopics = <<>>
  /\ completedChapters = <<>>
  /\ selectedChapter = ""
  /\ selectedTopic = ""
  /\ currentSubtopic = ""
  /\ subtopics = <<>>
  /\ ToolInit
  /\ loading = FALSE
  /\ error = ""
  /\ calls = <<Call("initial", FALSE,
                    [subject |-> SubjectList[1], weak |-> <<>>, stats |-> ServerStats])>>

\* the initial quiz on screen while the earlier request is answered
NextShrink ==
  \/ \E o \in Options : handleAnswer("initial", o)
  \/ handleNext("initial")
  \/ handlePrevious("initial")
  \/ \E c \in DOMAIN Catalogue : generatorMoves(c)
  \/ \E i \in DOMAIN calls : fetchResolves(i)
  \/ \E i \in DOMAIN calls : fetchRejects(i)
InitShrink == StaleQuizArrival /\ DashInit /\ MockInit /\ NudgeInit
SpecShrink == InitShrink /\ [][NextShrink]_vars

Spec == Init /\ [][Next]_vars
SpecReschedule == InitFetch /\ [][NextReschedule]_vars
SpecOnboard == Init /\ [][NextOnboard]_vars
SpecPlan == InitPlan /\ [][NextPlan]_vars
\* the plan phase of the student whose plan has one task and whose topic
\* quiz has two questions
InitQuiz == InitPlan /\ Catalogue[server.catalogue].other = QuizTopicTwo
SpecQuiz == InitQuiz /\ [][NextPlan]_vars
SpecMarks == InitMarks /\ [][NextMarks]_vars
SpecScore == InitScore /\ [][NextScore]_vars
SpecFetch == InitFetch /\ [][NextFetch]_vars
SpecComplete == InitPlan /\ [][NextComplete]_vars

\* the mock-test runner, beside a wizard that is left alone
SpecMock == Init /\ [][NextMock]_vars

\* the plan dashboard with two task cards marked complete one after the
\* other or side by side
NextPair ==
  \/ \E k \in DOMAIN studyPlan : handleTaskCompletion(k)
  \/ \E k \in DOMAIN studyPlan : handleTaskCompletionBeside(k)
  \/ \E i \in DOMAIN calls : taskProgressResolves(i)
  \/ \E i \in DOMAIN calls : taskProgressRejects(i)
  \/ \E i \in DOMAIN calls : taskRecordResolves(i)
  \/ \E i \in DOMAIN calls : taskRecordRejects(i)
  \/ \E i \in DOMAIN calls : fetchResolves(i)
  \/ \E i \in DOMAIN calls : fetchRejects(i)
SpecPair == InitPlan /\ [][NextPair]_vars

(***************************************************************************)
(* Claims about the wizard                                                 *)
(***************************************************************************)
\* C1 (as claimed): when the second write of a task completion has
\* succeeded, the wizard is at the chapter quiz (step 9) exactly if every
\* task of the plan with the task's chapter is now complete, and at the
\* topic quiz (step 8) exactly if, short of that, every task with the
\* task's topic and chapter is now complete.
C1_CompletionTransitions ==
  [][\A i \in DOMAIN calls :
       taskRecordResolves(i) =>
         LET task == calls[i].env.task
             chapterNow == ChapterTasksComplete(studyPlan', task)
             topicNow == TopicTasksComplete(studyPlan', task)
         IN /\ (step' = 9) <=> chapterNow
            /\ (step' = 8) <=> (topicNow /\ ~chapterNow)]_vars

\* the chapters of a plan whose tasks are all complete
ChaptersDone(plan) ==
  {plan[k].chapter : k \in DOMAIN plan} \
    {plan[k].chapter : k \in {j \in DOMAIN plan : ~plan[j].completed}}

\* C2 (as claimed): the completed-chapters set reaches size 3 (and with it
\* the three-chapter mastery transition becomes due) once three chapters
\* of the plan are complete and no completion is still being processed.
C2_ThreeChaptersCounted ==
  (calls = <<>> /\ Cardinality(ChaptersDone(studyPlan)) >= 3)
    => Cardinality(Range(completedChapters)) >= 3

C4_MarksToLevel ==
  [][(handleMarksSubmit /\ previousMarks # Null) =>
       LET m == previousMarks[1]
       IN /\ step = 3 /\ step' = 4
          /\ m < 60 => knowledgeLevel' = "beginner"
          /\ (60 <= m /\ m <= 75) => knowledgeLevel' = "intermediate"
          /\ m > 75 => knowledgeLevel' = "advanced"]_vars

\* C4 witness: the boundary mark 75 was submitted and gave intermediate
C4_Witness == step = 4 /\ previousMarks = <<75>> /\ knowledgeLevel = "intermediate"

\* the number of questions of the quiz of type t whose answer is in the
\* mapping and equals the key
MatchCount(t) ==
  Cardinality({i \in 0 .. Len(quiz[t]) - 1 :
                 i \in DOMAIN answers[t] /\ answers[t][i] = quiz[t][i + 1].answer})

\* C5: a quiz submission scores the number of indices whose answer equals
\* the question's key; an index the mapping lacks counts as incorrect.
C5_ScoreCountsMatches ==
  [][\A t \in QuizTypes : handleQuizSubmit(t) => quizScore' = <<MatchCount(t)>>]_vars

\* C5 witness: a two-question topic quiz was submitted with no answer for
\* its first question and the right one for its second, and scored 1
C5_Witness ==
  /\ 0 \notin DOMAIN answers["topic"]
  /\ Len(quiz["topic"]) = 2
  /\ Ans(answers["topic"], 1) = quiz["topic"][2].answer
  /\ quizScore = <<1>>
  /\ \E i \in DOMAIN calls : calls[i].kind = "quizProgress" /\ calls[i].env.score = 1

\* C6 (as claimed): the weak chapters kept from scoring are deduplicated.
C6_WeakDeduplicated ==
  \A i, j \in DOMAIN weakChapters : i # j => weakChapters[i] # weakChapters[j]

\* C7 (as claimed): a quiz submission of any type whose score ratio is 0.6
\* or above leaves weakChapters as it was.
C7_WeakOnlyBelowThreshold ==
  [][\A t \in QuizTypes :
       (handleQuizSubmit(t) /\ 5 * MatchCount(t) >= 3 * Len(quiz[t]))
         => weakChapters' = weakChapters]_vars

\* C8 (as claimed): the misses of a topic quiz are attributed to the
\* selected chapter: when the attempt is kept (score ratio below 0.6, so at
\* least one miss) the selected chapter is among the weak chapters.
C8_TopicMissesToSelected ==
  [][(handleQuizSubmit("topic") /\ 5 * MatchCount("topic") < 3 * Len(quiz["topic"]))
       => selectedChapter \in Range(weakChapters')]_vars

\* C11: the step 6 plan fetch sets the counters by a full scan of the plan
\* it received: totalTasks is the number of tasks, completedTasks the number
\* of completed tasks, missed the number of incomplete tasks dated before
\* today; so completedTasks <= totalTasks and missed <= totalTasks -
\* completedTasks.
C11_CountersFromScan ==
  [][\A i \in DOMAIN calls :
       (fetchResolves(i) /\ calls[i].kind = "plan") =>
         LET all == DOMAIN studyPlan'
             done == {k \in all : studyPlan'[k].completed}
             missed == {k \in all \ done : studyPlan'[k].late}
         IN /\ stats'.totalTasks = Cardinality(all)
            /\ stats'.completedTasks = Cardinality(done)
            /\ nudgeArgs'.missed = Cardinality(missed)
            /\ stats'.completedTasks <= stats'.totalTasks
            /\ nudgeArgs'.missed <= stats'.totalTasks - stats'.completedTasks]_vars

\* C11 witness: a fetched plan of an incomplete and a complete task, both
\* dated before today, counted as 2, 1, 1
C11_Witness ==
  /\ calls = <<>>
  /\ Len(studyPlan) = 2
  /\ ~studyPlan[1].completed /\ studyPlan[1].late
  /\ studyPlan[2].completed /\ studyPlan[2].late
  /\ stats = [completedTasks |-> 1, totalTasks |-> 2]
  /\ nudgeArgs.missed = 1 /\ nudgeArgs.total = 2 /\ nudgeArgs.completed = 1

\* C12: handleTaskCompletion(week, taskId) with a task id the week's list
\* lacks (also when another week has it) issues no request and leaves the
\* plan, the progress log, the step, the completed topics and chapters and
\* the error unchanged.
C12_UnknownTaskIsNoOp ==
  [][\A week \in CallWeeks, taskId \in CallIds :
       (handleTaskCompletionCall(week, taskId) /\ FindTask(studyPlan, week, taskId) = 0)
         => UNCHANGED <<calls, studyPlan, progress, step, completedTopics,
                        completedChapters, error, server>>]_vars

\* C12 witness: the plan dashboard accepts a call for task 3 in week "1"
\* while only week "2" has a task 3; the call leaves this state as it is
C12_Witness ==
  /\ step = 6 /\ Interactive /\ calls = <<>>
  /\ FindTask(studyPlan, "1", 3) = 0
  /\ FindTask(studyPlan, "2", 3) # 0
  /\ ENABLED handleTaskCompletionCall("1", 3)

\* the requests of task completions waiting for PUT /progress
RecordCalls(cs) == {i \in DOMAIN cs : cs[i].kind = "taskRecord"}

\* C13: the two writes of a task completion are issued in sequence and never
\* rolled back.  PUT /progress is issued only when PUT /task-progress has
\* succeeded.  When PUT /progress fails, the plan keeps the completed task,
\* no record is appended, step and completed topics and chapters stay, an
\* error is set and no further request is issued.  When PUT /task-progress
\* fails, PUT /progress is not issued, the plan is unchanged and an error is
\* set.
C13_NoRollback ==
  [][/\ Cardinality(RecordCalls(calls')) > Cardinality(RecordCalls(calls))
          => \E i \in DOMAIN calls : taskProgressResolves(i)
     /\ \A i \in DOMAIN calls :
          taskRecordRejects(i) =>
            LET env == calls[i].env
                k == FindTask(studyPlan', env.week, env.task_id)
            IN /\ k # 0 /\ studyPlan'[k].completed
               /\ UNCHANGED <<studyPlan, server, progress, step, completedTopics,
                              completedChapters>>
               /\ error' # ""
               /\ Len(calls') = Len(calls) - 1
     /\ \A i \in DOMAIN calls :
          taskProgressRejects(i) =>
            /\ UNCHANGED <<studyPlan, server, progress, step, completedTopics,
                           completedChapters>>
            /\ error' # ""
            /\ Len(calls') = Len(calls) - 1
            /\ Cardinality(RecordCalls(calls')) = Cardinality(RecordCalls(calls))]_vars

\* C13 witness: the first write succeeded and the second failed: the task is
\* complete in the plan, nothing was recorded, the error is shown
C13_Witness ==
  /\ step = 6 /\ calls = <<>>
  /\ error = "Failed to update task progress"
  /\ \E k \in DOMAIN studyPlan : studyPlan[k].completed
  /\ progress = <<>>
  /\ completedTopics = <<>> /\ completedChapters = <<>>

\* C14: a failed reschedule sets an error and leaves the study plan, the
\* nudge and the entered date as they were; a successful one replaces the
\* study plan by the plan of the server's reply, whatever the page held, and
\* empties the entered date; either way the request carried a non-empty date.
C14_RescheduleOutcome ==
  [][\A i \in DOMAIN calls :
       /\ rescheduleRejects(i) =>
            /\ calls[i].env.missed_date # ""
            /\ error' # ""
            /\ UNCHANGED <<studyPlan, nudge, missedDate>>
       /\ rescheduleResolves(i) =>
            /\ calls[i].env.missed_date # ""
            /\ studyPlan' = Rescheduled(server.plan)
            /\ missedDate' = ""]_vars
\* a reschedule is in flight for a plan with a missed task, which the reply
\* changes
C14_Witness ==
  \E i \in DOMAIN calls :
    /\ calls[i].kind = "reschedule"
    /\ missedDate # ""
    /\ studyPlan # Rescheduled(server.plan)

\* what the fetches and the plan generation have stored
Fetched == <<subjects, chapters, quiz, subtopics, currentSubtopic, studyPlan, stats, nudge>>

\* C15: when a step-entry fetch or the plan generation after the initial
\* quiz fails, the step stays what it was (for a fetch of the current
\* render, the step that issued it), an error message is set, nothing fetched earlier changes, and the failure
\* sends nothing: the request leaves the requests in flight, no other
\* enters, and no parameter of the fetch changes, so the effect does not run
\* again by itself.
C15_FailureKeepsStepAndData ==
  [][\A i \in DOMAIN calls :
       /\ fetchRejects(i) =>
            /\ step' = step
            /\ calls[i].mounted => FetchBranch' = calls[i].kind
            /\ error' # ""
            /\ UNCHANGED Fetched
            /\ Deps' = Deps /\ completedChapters' = completedChapters
            /\ calls' = Remove(calls, i)
       /\ createPlanRejects(i) =>
            /\ step' = step
            /\ error' # ""
            /\ UNCHANGED Fetched
            /\ Deps' = Deps /\ completedChapters' = completedChapters
            /\ calls' = Remove(calls, i)]_vars
\* the syllabus fetch is in flight while the subject list fetched before it
\* is held
C15_Witness ==
  \E i \in DOMAIN calls :
    /\ calls[i].kind = "syllabus"
    /\ step = 2
    /\ subjects # <<>>
    /\ error = ""

\* the step-entry fetches among the requests in flight
FetchCalls(cs) == {i \in DOMAIN cs : cs[i].kind \in FetchKinds}
\* the fetch of each fetching state
FetchOfStep(s) ==
  CASE s = 1 -> "subjects" [] s = 2 -> "syllabus" [] s = 4 -> "initial" [] s = 6 -> "plan"
    [] s = 7 -> "subtopics" [] s = 8 -> "topic" [] s = 9 -> "chapter"
    [] s = 10 -> "three_chapter" [] OTHER -> "none"

\* C16 (as claimed): a step into one of the states 1, 2, 4, 6, 7, 8, 9, 10
\* sends exactly one fetch, the one of that state, and a step that stays in
\* the same state sends none (selecting a subject in state 1 does not fetch
\* the subject list again).
C16_OneFetchPerEntry ==
  [][/\ step' # step /\ FetchOfStep(step') # "none" =>
          /\ Cardinality(FetchCalls(calls')) = Cardinality(FetchCalls(calls)) + 1
          /\ calls'[Len(calls')].kind = FetchOfStep(step')
     /\ step' = step =>
          Cardinality(FetchCalls(calls')) <= Cardinality(FetchCalls(calls))]_vars

\* C17 (as claimed): the response of a step-entry fetch whose step or
\* parameters changed while it was in flight (the effect's cleanup has run
\* for it) stores nothing: subjects, chapters, quizzes, subtopics, study
\* plan, stats and nudge stay as they are.
C17_StaleResponseDiscarded ==
  [][\A i \in DOMAIN calls :
       fetchResolves(i) /\ ~calls[i].mounted => UNCHANGED Fetched]_vars

\* the syllabus requests among the requests in flight: the fetch of step 2
\* and the one of "Regenerate Syllabus"
SyllabusCalls(cs) == {i \in DOMAIN cs : cs[i].kind \in {"syllabus", "regenerate"}}

\* the part of C18 about state 2: "Regenerate Syllabus" sends one more
\* syllabus request and stays in state 2, as does its reply, good or bad;
\* "Confirm Syllabus" goes to state 3 and sends no syllabus request
C18_StateTwo ==
  /\ handleConfirmSyllabus(FALSE) =>
       /\ step' = 2
       /\ Cardinality(SyllabusCalls(calls')) = Cardinality(SyllabusCalls(calls)) + 1
  /\ \A i \in DOMAIN calls :
       regenerateResolves(i) \/ regenerateRejects(i) => step = 2 /\ step' = 2
  /\ handleConfirmSyllabus(TRUE) =>
       /\ step' = 3
       /\ Cardinality(SyllabusCalls(calls')) <= Cardinality(SyllabusCalls(calls))

\* C18 (as claimed): state 2 behaves as above, and in no other state does a
\* step that stays in the state send the state's fetch again.
C18_OnlyStateTwoRefetches ==
  [][/\ C18_StateTwo
     /\ step' = step /\ step # 2 =>
          \A j \in FetchCalls(calls') :
            calls'[j].kind = FetchOfStep(step) => j \in FetchCalls(calls) /\ calls[j] = calls'[j]]_vars

\* C19: a handler whose local precondition fails sends nothing and keeps
\* the step: submitting marks with none entered, rescheduling with an empty
\* date and sending a chat message with no chapter, topic or subtopic
\* selected each set an error message; sending an empty or blank chat
\* message does nothing.
C19_LocalFailuresStayLocal ==
  [][/\ handleMarksSubmit /\ previousMarks = Null =>
          calls' = calls /\ step' = step /\ error' # ""
     /\ handleReschedule /\ missedDate = "" =>
          calls' = calls /\ step' = step /\ error' # ""
     /\ handleSend /\ Trim(message) # <<>>
          /\ (selectedChapter = "" \/ selectedTopic = "" \/ currentSubtopic = "") =>
          calls' = calls /\ step' = step /\ error' # ""
     /\ handleSend /\ Trim(message) = <<>> =>
          calls' = calls /\ step' = step /\ error' = error]_vars
\* a chat message was sent for a task without a subtopic and was refused
C19_Witness ==
  /\ step = 7
  /\ currentSubtopic = ""
  /\ error = "Please select a chapter, topic, and subtopic before chatting"
  /\ message = <<>>
  /\ calls = <<>>

\* the PUT /progress requests of quizzes among the requests in flight
QuizProgressCalls(cs) == {i \in DOMAIN cs : cs[i].kind = "quizProgress"}

\* C20: a submission of a topic, chapter or three-chapter quiz sends exactly
\* one PUT /progress, with completed true, the quiz type in its task_id and
\* as score the matches out of the number of questions (times 100); a
\* submission of the initial quiz sends none.
C20_OneProgressPerQuiz ==
  [][\A t \in QuizTypes :
       handleQuizSubmit(t) =>
         IF t = "initial"
           THEN Cardinality(QuizProgressCalls(calls')) = Cardinality(QuizProgressCalls(calls))
           ELSE /\ QuizProgressCalls(calls') = QuizProgressCalls(calls) \cup {Len(calls) + 1}
                /\ calls'[Len(calls) + 1].env =
                     [task_id |-> t, completed |-> TRUE, score |-> MatchCount(t),
                      outOf |-> Len(quiz[t])]]_vars
\* the PUT /progress of a quiz with a right and a wrong answer is in flight
C20_Witness ==
  \E i \in DOMAIN calls :
    /\ calls[i].kind = "quizProgress"
    /\ 0 < calls[i].env.score /\ calls[i].env.score < calls[i].env.outOf

\* C21 (as claimed): a successful logout leaves the wizard in state -1 with
\* board, selectedSubject, chapters, extraChapters, weakChapters and
\* knowledgeLevel at their initial values.
C21_LogoutResetsWizard ==
  [][\A i \in DOMAIN calls :
       logoutResolves(i) =>
         /\ step' = -1
         /\ board' = "" /\ selectedSubject' = ""
         /\ chapters' = <<>> /\ extraChapters' = <<>>
         /\ weakChapters' = <<>> /\ knowledgeLevel' = "beginner"]_vars

\* C22 (as claimed): without an authenticated user the wizard is in state
\* -1 with the auth dialog open, whatever the order in which a logout and
\* the requests started before it complete; only a successful login leaves
\* state -1, and it leads to state 0.
C22_GateHoldsWithoutUser ==
  /\ [](~user => step = -1 /\ authModalOpen)
  /\ [][step = -1 /\ step' # -1 =>
          (\E i \in DOMAIN calls : authResolves(i)) /\ step' = 0]_vars

\* C23 (as claimed): an answer is removed from a quiz's answer set only by
\* the arrival of a newly fetched quiz of that type, and when a newly
\* fetched topic, chapter or three-chapter quiz arrives its answer set is
\* empty, on the first and on every later quiz of the type.
C23_AnswersClearedOnNewQuiz ==
  [][/\ \A t \in QuizTypes :
          DOMAIN answers[t] \subseteq DOMAIN answers'[t]
          \/ \E i \in DOMAIN calls : calls[i].kind = t /\ fetchResolves(i)
     /\ \A i \in DOMAIN calls :
          fetchResolves(i) /\ calls[i].kind \in QuizTypes \ {"initial"} =>
            answers'[calls[i].kind] = <<>>]_vars

\* C24 (as claimed): whenever the Submit button of the presented quiz is
\* enabled, every question index of that quiz has an answer, whatever
\* quizzes were taken before.
C24_SubmitNeedsEveryAnswer ==
  \A t \in QuizTypes :
    SubmitEnabled(t) => \A i \in 0 .. Len(quiz[t]) - 1 : i \in DOMAIN answers[t]

\* what a submission of the quiz of type t computes from the current state:
\* the score it displays and the weak chapters it leaves
Submitted(t) ==
  LET result == QuizLoop(t, quiz[t], answers[t], weakChapters, selectedChapter,
                         Len(quiz[t]))
      own == InitialLoop(quiz[t], answers[t], Len(quiz[t]))
  IN [score |-> IF t = "initial" THEN own.score ELSE result.score,
      weak |-> WeakAfterSubmit(t, result, own)]

\* C25: scoring is idempotent: when a quiz has been submitted, submitting the
\* same questions and answers again from the state the first submission left
\* yields the same score and the same set of weak chapters
C25_ScoringIdempotent ==
  [][\A t \in QuizTypes :
       handleQuizSubmit(t) =>
         /\ quiz'[t] = quiz[t] /\ answers'[t] = answers[t]
         /\ quizScore' = <<Submitted(t).score>>
         /\ Submitted(t)'.score = Submitted(t).score
         /\ Range(Submitted(t)'.weak) = Range(weakChapters')]_vars

\* a submission with both a hit and a miss has been made: a positive score
\* below the number of questions and a weak chapter recorded
C25_Witness ==
  /\ \E i \in DOMAIN calls : calls[i].kind \in {"createPlan", "quizProgress"}
  /\ quizScore # Null /\ quizScore[1] > 0
  /\ weakChapters # <<>>

\* C26: no completed task is lost from the local progress log: when no
\* completion is awaiting a reply and none has failed, every task the
\* server holds as complete has its record in the progress log
C26_NoCompletionLost ==
  TaskCalls(calls) = <<>> /\ error # "Failed to update task progress" =>
    \A k \in DOMAIN server.plan :
      server.plan[k].completed =>
        \E j \in DOMAIN progress : progress[j].task_id = server.plan[k].id

\* C27: the extra-chapter selection (step 5) is never reached: step is never
\* 5, the reply to a submitted initial quiz sets step 6, no extra chapter is
\* ever selected and every POST /study-plans carries an empty extra_chapters
C27_StepFiveUnreached ==
  /\ [](/\ step # 5
        /\ extraChapters = <<>>
        /\ \A i \in DOMAIN calls :
             calls[i].kind = "createPlan" => calls[i].env.extra_chapters = <<>>)
  /\ [][\A i \in DOMAIN calls :
          createPlanResolves(i) => step' = 6]_vars

\* the reply to the initial quiz has been adopted: the plan dashboard with
\* the generated plan and the score of the initial quiz
C27_Witness ==
  /\ step = 6 /\ studyPlan # <<>> /\ quizScore # Null
  /\ \A i \in DOMAIN calls : calls[i].kind # "createPlan"

\* the runs of fetchData and the syllabus regenerations awaiting a reply
LoadingCalls(cs) == SelectSeq(cs, LAMBDA c : c.kind \in FetchKinds \cup {"regenerate"})

\* C28: the loading flag always clears: when no step-entry fetch, superseded
\* or not, and no syllabus regeneration is awaiting a reply, loading is false
C28_LoadingClears == LoadingCalls(calls) = <<>> => ~loading

\* a fetch superseded by the logout has completed after the step change: its
\* subjects are stored at step -1 and nothing is in flight
C28_Witness ==
  /\ step = -1 /\ subjects # <<>> /\ chapters = <<>>
  /\ calls = <<>> /\ ~loading

\* C29: in the quiz component the current question index addresses an
\* existing question: whenever a step shows a quiz that is not empty,
\* 0 <= currentQuestion < quiz.length
C29_IndexInRange ==
  \A t \in QuizTypes :
    TypeOfStep(step) = t /\ Len(quiz[t]) > 0 =>
      0 <= currentQuestion /\ currentQuestion < Len(quiz[t])

\* C30: in the mock-test runner "Back to Tests" on the results screen returns
\* to the test list: after it no question screen is shown, and a question
\* screen appears again only when the student starts a test
C30_BackShowsTestList ==
  [][/\ backToTests => TestView' = "list"
     /\ TestView # "question" /\ TestView' = "question" =>
          retakeTest \/ \E k \in DOMAIN tests : startListedTest(k)]_vars

(***************************************************************************)
(* Claims about the nudge generator and the dashboard aggregator           *)
(***************************************************************************)
\* the completion ratio of a call, in tenths, with total = 0 read as ratio 0
RatioAbove(a, num, den) == a.total > 0 /\ den * a.completed > num * a.total

\* C9: generateNudge produces exactly one message by a strict priority
\* cascade: missed > 0 gives the missed-count message naming the first two
\* weak chapters (or the generic fallback); otherwise a non-empty weak list
\* gives the weak-chapter message with at most two chapters; otherwise ratio
\* > 0.8 gives mastery, ratio > 0.5 halfway, anything else encouragement; a
\* ratio-based message never appears when missed > 0 or weak is non-empty,
\* and total = 0 counts as ratio 0.
C9_NudgePriority ==
  nudge # NoNudge =>
    LET a == nudgeArgs IN
    /\ nudge.rule \in {"missed", "weak", "mastery", "halfway", "encourage"}
    /\ (a.missed > 0) <=> (nudge.rule = "missed")
    /\ nudge.rule = "missed" =>
         /\ nudge.missed = a.missed
         /\ nudge.focus = IF a.weak = <<>> THEN <<"your studies">>
                          ELSE SubSeq(a.weak, 1, IF Len(a.weak) > 2 THEN 2 ELSE Len(a.weak))
    /\ (a.missed = 0 /\ a.weak # <<>>) <=> (nudge.rule = "weak")
    /\ nudge.rule = "weak" =>
         /\ Len(nudge.focus) \in 1..2
         /\ \A i \in DOMAIN nudge.focus : nudge.focus[i] = a.weak[i]
         /\ Len(nudge.focus) = 2 \/ Len(a.weak) = 1
    /\ nudge.rule \in {"mastery", "halfway", "encourage"} =>
         /\ a.missed = 0 /\ a.weak = <<>>
         /\ (nudge.rule = "mastery") <=> RatioAbove(a, 8, 10)
         /\ (nudge.rule = "halfway") <=> (RatioAbove(a, 5, 10) /\ ~RatioAbove(a, 8, 10))
    /\ a.total = 0 /\ a.weak = <<>> => nudge.rule = "encourage"

\* C9 witness: two missed tasks and a weak chapter with a ratio above 0.5,
\* answered by the missed-count message
C9_Witness ==
  /\ nudgeArgs.missed = 2 /\ nudgeArgs.weak = <<"Heat">>
  /\ 2 * nudgeArgs.completed > nudgeArgs.total
  /\ nudge.rule = "missed" /\ nudge.focus = <<"Heat">>

RECURSIVE SumCompletedScores(_)
SumCompletedScores(log) ==
  IF log = <<>> THEN 0
  ELSE SumCompletedScores(Tail(log))
         + (IF log[1].completed THEN ScoreOrZero(log[1]) ELSE 0)

\* C10 (as claimed): averageScore is the sum of (score or 0) over the
\* completed records only, divided by max(completed, 1) (rounded as the
\* dashboard rounds it); a log with no completed record reports 0.
C10_AverageOverCompleted ==
  LET completed == Cardinality({i \in DOMAIN dashProgress : dashProgress[i].completed})
  IN dashStats.averageScore =
       RoundDiv(SumCompletedScores(dashProgress), IF completed = 0 THEN 1 ELSE completed)

(***************************************************************************)
(* Specifications                                                          *)
(***************************************************************************)
InitDash == WizardInit /\ DashInit /\ MockInit /\ NudgeInit
NextDash == fetchProgress \/ fetchProgressFails
SpecDash == InitDash /\ [][NextDash]_vars

InitNudge == WizardInit /\ DashInit /\ MockInit /\ nudgeArgs \in NudgeInputs /\ nudge = NoNudge
NextNudge == callGenerateNudge
SpecNudge == InitNudge /\ [][NextNudge]_vars

====
